---- MODULE Spec2Model ----
(***************************************************************************)
(* Referral network: the graph mutation API of ReferralNetwork             *)
(* (core/referral_network.py), the User record (models/user.py) and the    *)
(* business-rule validator (constraints/validator.py).                     *)
(*                                                                         *)
(* users is the dict ReferralNetwork.users: a sequence of User records in  *)
(* the insertion order of their keys.  referrer_map is the dict            *)
(* ReferralNetwork.referrer_map as a function candidate -> referrer.       *)
(* last is the call the single-threaded caller has just made, with its     *)
(* arguments and what it returned or raised, until the caller takes the    *)
(* result (Return); between calls it is NoCall.  hist is a history         *)
(* variable: the candidates of the accepted add_referral calls, over the   *)
(* whole run and since the last clear (recorded only under SpecHist), the  *)
(* ids add_user accepted since the last clear and one referral the last   *)
(* clear removed (recorded only under SpecLife), and the dictionary the    *)
(* caller holds from export_network with the network it was exported from  *)
(* (SpecIO).  sim is the frame of a running call of core/simulation.py:    *)
(* its arguments, its local variables, its position and its result.        *)
(***************************************************************************)
EXTENDS Integers, Sequences, FiniteSets, TLC

VARIABLES users, referrer_map, last, hist, sim

vars == <<users, referrer_map, last, hist, sim>>

\* Largest user id the callers pass; ids are 0..MaxId.
MaxId == 2

Ids == 0..MaxId

\* Python's None (User.referrer of a user nobody referred, absent dict key).
None == 0 - 2

\* Arguments the callers pass as ids: a negative id, and the ids 0..MaxId.
ArgIds == (0 - 1)..MaxId

----------------------------------------------------------------------------
(* models/user.py *)

User(user_id) == [user_id |-> user_id, referrals |-> {}, referrer |-> None]

user_add_referral(user, candidate_id) ==
    IF candidate_id \notin user.referrals
    THEN [user EXCEPT !.referrals = @ \cup {candidate_id}]
    ELSE user

\* Mutant: the assignment is lost.
set_referrer_lost(user, referrer_id) == user

set_referrer(user, referrer_id) == [user EXCEPT !.referrer = referrer_id]

\* Mutant: truthiness test (bool(self.referrer)), so referrer 0 counts as none.
has_referrer_truthy(user) == user.referrer # None /\ user.referrer # 0

has_referrer(user) == user.referrer # None

----------------------------------------------------------------------------
(* dict helpers *)

\* Keys of the users dict.
Keys(U) == {U[i].user_id : i \in DOMAIN U}

\* U[user_id] for a key that is present.
Get(U, user_id) == U[CHOOSE i \in DOMAIN U : U[i].user_id = user_id]

\* U with the value of an existing key replaced (the key keeps its position).
Put(U, user_id, user) ==
    [i \in DOMAIN U |-> IF U[i].user_id = user_id THEN user ELSE U[i]]

\* Iteration order of a set of small non-negative ints: ascending.
RECURSIVE set_iter(_)
set_iter(S) ==
    IF S = {} THEN <<>>
    ELSE LET m == CHOOSE x \in S : \A y \in S : x <= y
         IN <<m>> \o set_iter(S \ {m})

----------------------------------------------------------------------------
(* constraints/validator.py *)

\* The while loop of _would_create_cycle: visited set and explicit stack.
RECURSIVE would_create_cycle_loop(_, _, _, _)
would_create_cycle_loop(referrer_id, U, visited, stack) ==
    IF stack = <<>> THEN FALSE
    ELSE LET current == stack[Len(stack)]
             rest    == SubSeq(stack, 1, Len(stack) - 1)
         IN IF current \in visited
            THEN would_create_cycle_loop(referrer_id, U, visited, rest)
            ELSE IF current = referrer_id THEN TRUE
            ELSE LET v2 == visited \cup {current}
                     pushed ==
                        IF current \in Keys(U)
                        THEN set_iter({x \in Get(U, current).referrals : x \notin v2})
                        ELSE <<>>
                 IN would_create_cycle_loop(referrer_id, U, v2, rest \o pushed)

\* Mutant: the search runs from the referrer towards the candidate.
would_create_cycle_reversed(referrer_id, candidate_id, U) ==
    IF candidate_id = referrer_id THEN TRUE
    ELSE would_create_cycle_loop(candidate_id, U, {}, <<referrer_id>>)

\* Mutant: only a direct back edge is looked for, no traversal.
would_create_cycle_direct(referrer_id, candidate_id, U) ==
    IF candidate_id = referrer_id THEN TRUE
    ELSE candidate_id \in Keys(U)
         /\ referrer_id \in Get(U, candidate_id).referrals

would_create_cycle(referrer_id, candidate_id, U) ==
    IF candidate_id = referrer_id THEN TRUE
    ELSE would_create_cycle_loop(referrer_id, U, {}, <<candidate_id>>)

\* Mutant: the unique-referrer check is missing.
can_add_referral_no_unique(referrer_id, candidate_id, U) ==
    IF referrer_id \notin Keys(U)
    THEN [valid |-> FALSE, reason |-> <<"Referrer ", referrer_id, " does not exist">>]
    ELSE IF candidate_id \notin Keys(U)
    THEN [valid |-> FALSE, reason |-> <<"Candidate ", candidate_id, " does not exist">>]
    ELSE IF referrer_id = candidate_id
    THEN [valid |-> FALSE, reason |-> <<"Users cannot refer themselves">>]
    ELSE IF would_create_cycle(referrer_id, candidate_id, U)
    THEN [valid |-> FALSE, reason |-> <<"Referral would create a cycle in the network">>]
    ELSE [valid |-> TRUE, reason |-> <<>>]

\* Mutant: the self-referral branch returns the success tuple.
can_add_referral_self_ok(referrer_id, candidate_id, U) ==
    IF referrer_id \notin Keys(U)
    THEN [valid |-> FALSE, reason |-> <<"Referrer ", referrer_id, " does not exist">>]
    ELSE IF candidate_id \notin Keys(U)
    THEN [valid |-> FALSE, reason |-> <<"Candidate ", candidate_id, " does not exist">>]
    ELSE IF referrer_id = candidate_id
    THEN [valid |-> TRUE, reason |-> <<>>]
    ELSE IF has_referrer(Get(U, candidate_id))
    THEN [valid |-> FALSE, reason |-> <<"User ", candidate_id, " already has a referrer">>]
    ELSE IF would_create_cycle(referrer_id, candidate_id, U)
    THEN [valid |-> FALSE, reason |-> <<"Referral would create a cycle in the network">>]
    ELSE [valid |-> TRUE, reason |-> <<>>]

\* Mutant: the cycle check runs before the unique-referrer check.
can_add_referral_cycle_first(referrer_id, candidate_id, U) ==
    IF referrer_id \notin Keys(U)
    THEN [valid |-> FALSE, reason |-> <<"Referrer ", referrer_id, " does not exist">>]
    ELSE IF candidate_id \notin Keys(U)
    THEN [valid |-> FALSE, reason |-> <<"Candidate ", candidate_id, " does not exist">>]
    ELSE IF referrer_id = candidate_id
    THEN [valid |-> FALSE, reason |-> <<"Users cannot refer themselves">>]
    ELSE IF would_create_cycle(referrer_id, candidate_id, U)
    THEN [valid |-> FALSE, reason |-> <<"Referral would create a cycle in the network">>]
    ELSE IF has_referrer(Get(U, candidate_id))
    THEN [valid |-> FALSE, reason |-> <<"User ", candidate_id, " already has a referrer">>]
    ELSE [valid |-> TRUE, reason |-> <<>>]

\* Returns (is_valid, error_message); the f-string messages are kept as the
\* tuple of their literal and interpolated parts.
can_add_referral(referrer_id, candidate_id, U) ==
    IF referrer_id \notin Keys(U)
    THEN [valid |-> FALSE, reason |-> <<"Referrer ", referrer_id, " does not exist">>]
    ELSE IF candidate_id \notin Keys(U)
    THEN [valid |-> FALSE, reason |-> <<"Candidate ", candidate_id, " does not exist">>]
    ELSE IF referrer_id = candidate_id
    THEN [valid |-> FALSE, reason |-> <<"Users cannot refer themselves">>]
    ELSE IF has_referrer(Get(U, candidate_id))
    THEN [valid |-> FALSE, reason |-> <<"User ", candidate_id, " already has a referrer">>]
    ELSE IF would_create_cycle(referrer_id, candidate_id, U)
    THEN [valid |-> FALSE, reason |-> <<"Referral would create a cycle in the network">>]
    ELSE [valid |-> TRUE, reason |-> <<>>]

validate_network_integrity_user(U, user) ==
    (IF has_referrer(user) /\ user.referrer \notin Keys(U)
     THEN <<<<"User ", user.user_id, " has non-existent referrer ", user.referrer>>>>
     ELSE <<>>)
    \o
    [j \in 1..Cardinality(user.referrals \ Keys(U)) |->
        <<"User ", user.user_id, " refers to non-existent user ",
          set_iter(user.referrals \ Keys(U))[j]>>]

RECURSIVE validate_network_integrity_from(_, _)
validate_network_integrity_from(U, i) ==
    IF i > Len(U) THEN <<>>
    ELSE validate_network_integrity_user(U, U[i])
         \o validate_network_integrity_from(U, i + 1)

\* Returns (is_valid, list_of_errors).
validate_network_integrity(U) ==
    LET errors == validate_network_integrity_from(U, 1)
    IN [valid |-> (Len(errors) = 0), errors |-> errors]

----------------------------------------------------------------------------
(* core/referral_network.py: pure parts *)

\* _has_cycle: the nested dfs with its visited and rec_stack sets.
RECURSIVE dfs(_, _, _, _), dfs_children(_, _, _, _, _)
dfs(U, user_id, visited, rec_stack) ==
    IF user_id \in rec_stack
    THEN [found |-> TRUE, visited |-> visited, rec_stack |-> rec_stack]
    ELSE IF user_id \in visited
    THEN [found |-> FALSE, visited |-> visited, rec_stack |-> rec_stack]
    ELSE LET kids == IF user_id \in Keys(U)
                     THEN set_iter(Get(U, user_id).referrals)
                     ELSE <<>>
             res == dfs_children(U, kids, 1, visited \cup {user_id},
                                 rec_stack \cup {user_id})
         IN IF res.found THEN res
            ELSE [found |-> FALSE, visited |-> res.visited,
                  rec_stack |-> res.rec_stack \ {user_id}]

dfs_children(U, kids, i, visited, rec_stack) ==
    IF i > Len(kids)
    THEN [found |-> FALSE, visited |-> visited, rec_stack |-> rec_stack]
    ELSE LET r == dfs(U, kids[i], visited, rec_stack)
         IN IF r.found THEN r
            ELSE dfs_children(U, kids, i + 1, r.visited, r.rec_stack)

has_cycle(U, start_user_id) == dfs(U, start_user_id, {}, {}).found

RECURSIVE validate_network_cycles(_, _)
validate_network_cycles(U, i) ==
    IF i > Len(U) THEN <<>>
    ELSE (IF has_cycle(U, U[i].user_id)
          THEN <<<<"Cycle detected involving user ", U[i].user_id>>>>
          ELSE <<>>)
         \o validate_network_cycles(U, i + 1)

\* The orphan loop over referrer_map.items(); the order of its messages is
\* taken as ascending candidate id.
validate_network_orphans(U, M) ==
    LET bad == set_iter({c \in DOMAIN M : M[c] \notin Keys(U)})
    IN [j \in 1..Len(bad) |->
          <<"User ", bad[j], " has non-existent referrer ", M[bad[j]]>>]

validate_network(U, M) ==
    validate_network_cycles(U, 1) \o validate_network_orphans(U, M)

get_network_size(U) == Len(U)

has_user(U, user_id) == user_id \in Keys(U)

get_referrer(M, user_id) == IF user_id \in DOMAIN M THEN M[user_id] ELSE None

\* User.get_referrals: a copy of the referrals set.  A returned set object is
\* its elements and the user whose internal set it is (None for a new object).
user_get_referrals(user) == [elems |-> user.referrals, alias_of |-> None]

\* Mutant: the internal set of the node is returned, not a copy.
get_direct_referrals_alias(U, user_id) ==
    IF user_id \notin Keys(U) THEN [elems |-> {}, alias_of |-> None]
    ELSE [elems |-> Get(U, user_id).referrals, alias_of |-> user_id]

\* get_direct_referrals: set() or user.get_referrals().copy()
get_direct_referrals(U, user_id) ==
    IF user_id \notin Keys(U) THEN [elems |-> {}, alias_of |-> None]
    ELSE [elems |-> user_get_referrals(Get(U, user_id)).elems,
          alias_of |-> None]

\* Mutant: the membership test is missing, an existing user is overwritten.
add_user_overwrite(user_id, U) ==
    IF user_id = None \/ user_id < 0
    THEN [ret |-> "ValueError", users |-> U]
    ELSE IF user_id \in Keys(U)
    THEN [ret |-> "True", users |-> Put(U, user_id, User(user_id))]
    ELSE [ret |-> "True", users |-> Append(U, User(user_id))]

\* add_user: what it returns or raises, and the users dict afterwards.
add_user(user_id, U) ==
    IF user_id = None \/ user_id < 0
    THEN [ret |-> "ValueError", users |-> U]
    ELSE IF user_id \in Keys(U)
    THEN [ret |-> "False", users |-> U]
    ELSE [ret |-> "True", users |-> Append(U, User(user_id))]

\* Mutant: the referral is recorded on the candidate's node instead of the
\* referrer's.
add_referral_commit_reversed(referrer_id, candidate_id, U, M) ==
    LET U1 == Put(U, candidate_id,
                  user_add_referral(Get(U, candidate_id), referrer_id))
        U2 == Put(U1, candidate_id,
                  set_referrer(Get(U1, candidate_id), referrer_id))
    IN [ret |-> "True", users |-> U2,
        referrer_map |-> [x \in DOMAIN M \cup {candidate_id} |->
                            IF x = candidate_id THEN referrer_id ELSE M[x]]]

\* Mutant: referrer_map is not updated.
add_referral_commit_no_map(referrer_id, candidate_id, U, M) ==
    LET U1 == Put(U, referrer_id,
                  user_add_referral(Get(U, referrer_id), candidate_id))
        U2 == Put(U1, candidate_id,
                  set_referrer(Get(U1, candidate_id), referrer_id))
    IN [ret |-> "True", users |-> U2, referrer_map |-> M]

\* The committing tail of add_referral (lines 95-105).
add_referral_commit(referrer_id, candidate_id, U, M) ==
    LET U1 == Put(U, referrer_id,
                  user_add_referral(Get(U, referrer_id), candidate_id))
        U2 == Put(U1, candidate_id,
                  set_referrer(Get(U1, candidate_id), referrer_id))
    IN [ret |-> "True", users |-> U2,
        referrer_map |-> [x \in DOMAIN M \cup {candidate_id} |->
                            IF x = candidate_id THEN referrer_id ELSE M[x]]]

\* Mutant: the existence pre-checks are left to the validator, so an
\* unknown id gives the soft False.
add_referral_soft_unknown(referrer_id, candidate_id, U, M) ==
    IF ~can_add_referral(referrer_id, candidate_id, U).valid
    THEN [ret |-> "False", users |-> U, referrer_map |-> M]
    ELSE add_referral_commit(referrer_id, candidate_id, U, M)

\* add_referral: what it returns or raises, and both dicts afterwards.
add_referral(referrer_id, candidate_id, U, M) ==
    IF referrer_id \notin Keys(U)
    THEN [ret |-> "ValueError", users |-> U, referrer_map |-> M]
    ELSE IF candidate_id \notin Keys(U)
    THEN [ret |-> "ValueError", users |-> U, referrer_map |-> M]
    ELSE IF ~can_add_referral(referrer_id, candidate_id, U).valid
    THEN [ret |-> "False", users |-> U, referrer_map |-> M]
    ELSE add_referral_commit(referrer_id, candidate_id, U, M)

----------------------------------------------------------------------------
(* algorithms/network_analysis.py: reachability and ranking *)

\* list[:k] of Python, k of either sign.
slice_to(seq, k) ==
    IF k >= 0
    THEN SubSeq(seq, 1, IF k < Len(seq) THEN k ELSE Len(seq))
    ELSE SubSeq(seq, 1, IF Len(seq) + k > 0 THEN Len(seq) + k ELSE 0)

\* One insertion of list.sort(key=lambda x: x[1], reverse=True): the sort is
\* stable, so e goes behind every entry whose key is not smaller.
sort_insert(sorted, e) ==
    LET p == Cardinality({i \in DOMAIN sorted : sorted[i][2] >= e[2]})
    IN SubSeq(sorted, 1, p) \o <<e>> \o SubSeq(sorted, p + 1, Len(sorted))

\* Mutant: entries with equal keys end up in reverse order.
RECURSIVE sort_by_score_desc_unstable(_)
sort_by_score_desc_unstable(seq) ==
    IF seq = <<>> THEN <<>>
    ELSE LET e == seq[Len(seq)]
             sorted == sort_by_score_desc_unstable(SubSeq(seq, 1, Len(seq) - 1))
             p == Cardinality({i \in DOMAIN sorted : sorted[i][2] > e[2]})
         IN SubSeq(sorted, 1, p) \o <<e>> \o SubSeq(sorted, p + 1, Len(sorted))

\* The entries lo..hi of seq are inserted one after the other into sorted,
\* which holds the lo - 1 entries before them: the lower half of the range
\* is inserted, then the upper half.
RECURSIVE sort_from(_, _, _, _)
sort_from(seq, sorted, lo, hi) ==
    IF lo > hi \/ Len(sorted) # lo - 1 THEN sorted
    ELSE IF lo = hi THEN sort_insert(sorted, seq[lo])
    ELSE LET mid == (lo + hi) \div 2
         IN sort_from(seq, sort_from(seq, sorted, lo, mid), mid + 1, hi)

sort_by_score_desc(seq) == sort_from(seq, <<>>, 1, Len(seq))

\* The while loop of NetworkAnalyzer.get_total_referrals: visited set, deque
\* and running total.
RECURSIVE analyzer_get_total_referrals_loop(_, _, _, _)
analyzer_get_total_referrals_loop(U, visited, queue, total) ==
    IF queue = <<>> THEN total
    ELSE LET current == Head(queue)
         IN IF current \in visited
            THEN analyzer_get_total_referrals_loop(U, visited, Tail(queue), total)
            ELSE LET v2 == visited \cup {current}
                     new == set_iter({x \in Get(U, current).referrals : x \notin v2})
                 IN analyzer_get_total_referrals_loop(
                        U, v2, Tail(queue) \o new, total + Len(new))

\* Mutant: the start node is counted with its descendants.
analyzer_get_total_referrals_with_self(user_id, U) ==
    IF user_id \notin Keys(U) THEN 0
    ELSE analyzer_get_total_referrals_loop(U, {}, <<user_id>>, 1)

\* Mutant: only the direct referrals are counted.
analyzer_get_total_referrals_direct(user_id, U) ==
    IF user_id \notin Keys(U) THEN 0
    ELSE Cardinality(Get(U, user_id).referrals)

\* NetworkAnalyzer.get_total_referrals
analyzer_get_total_referrals(user_id, U) ==
    IF user_id \notin Keys(U) THEN 0
    ELSE analyzer_get_total_referrals_loop(U, {}, <<user_id>>, 0)

\* The loop of NetworkAnalyzer.get_top_referrers that builds referrer_counts.
RECURSIVE referrer_counts_from(_, _)
referrer_counts_from(U, i) ==
    IF i > Len(U) THEN <<>>
    ELSE (IF U[i].referrals # {}
          THEN <<<<U[i].user_id, analyzer_get_total_referrals(U[i].user_id, U)>>>>
          ELSE <<>>)
         \o referrer_counts_from(U, i + 1)

\* NetworkAnalyzer.get_top_referrers
analyzer_get_top_referrers(k, U) ==
    slice_to(sort_by_score_desc(referrer_counts_from(U, 1)), k)

\* ReferralNetwork.get_total_referrals
get_total_referrals(U, user_id) ==
    IF user_id \notin Keys(U) THEN 0
    ELSE analyzer_get_total_referrals(user_id, U)

\* ReferralNetwork.get_top_referrers
get_top_referrers(U, k) ==
    IF k <= 0 THEN <<>> ELSE analyzer_get_top_referrers(k, U)

----------------------------------------------------------------------------
(* algorithms/reach_expansion.py *)

\* The while loop of ReachExpander._get_user_reach: reach set and stack.
RECURSIVE get_user_reach_loop(_, _, _, _)
get_user_reach_loop(user_id, U, reach, stack) ==
    IF stack = <<>> THEN reach
    ELSE LET current == stack[Len(stack)]
             rest    == SubSeq(stack, 1, Len(stack) - 1)
         IN IF current \in reach
            THEN get_user_reach_loop(user_id, U, reach, rest)
            ELSE LET r2 == IF current # user_id THEN reach \cup {current}
                           ELSE reach
                     pushed == set_iter({x \in Get(U, current).referrals :
                                            x \notin r2})
                 IN get_user_reach_loop(user_id, U, r2, rest \o pushed)

get_user_reach(user_id, U) ==
    IF user_id \notin Keys(U) THEN {}
    ELSE get_user_reach_loop(user_id, U, {}, <<user_id>>)

\* Mutant: the referrers are listed in the reverse of the insertion order.
RECURSIVE potential_referrers_from_reversed(_, _)
potential_referrers_from_reversed(U, i) ==
    IF i > Len(U) THEN <<>>
    ELSE potential_referrers_from_reversed(U, i + 1)
         \o (IF U[i].referrals # {} THEN <<U[i].user_id>> ELSE <<>>)

RECURSIVE potential_referrers_from(_, _)
potential_referrers_from(U, i) ==
    IF i > Len(U) THEN <<>>
    ELSE (IF U[i].referrals # {} THEN <<U[i].user_id>> ELSE <<>>)
         \o potential_referrers_from(U, i + 1)

\* Mutant: the first user not yet selected is taken, whatever its gain.
RECURSIVE best_user_from_first_open(_, _, _, _, _, _)
best_user_from_first_open(U, potential, selected, total_reach, i, best) ==
    IF i > Len(potential) THEN best
    ELSE IF potential[i] \in selected
    THEN best_user_from_first_open(U, potential, selected, total_reach, i + 1,
                                   best)
    ELSE [user |-> potential[i],
          new_reach |-> Cardinality(get_user_reach(potential[i], U)
                                    \ total_reach)]

\* Mutant: a later user with the same gain replaces the best user.
RECURSIVE best_user_from_last_tie(_, _, _, _, _, _)
best_user_from_last_tie(U, potential, selected, total_reach, i, best) ==
    IF i > Len(potential) THEN best
    ELSE IF potential[i] \in selected
    THEN best_user_from_last_tie(U, potential, selected, total_reach, i + 1, best)
    ELSE LET new_reach ==
                Cardinality(get_user_reach(potential[i], U) \ total_reach)
         IN best_user_from_last_tie(U, potential, selected, total_reach, i + 1,
                IF new_reach >= best.new_reach
                THEN [user |-> potential[i], new_reach |-> new_reach]
                ELSE best)

\* The inner for loop of one greedy step: the best user so far and its gain.
RECURSIVE best_user_from(_, _, _, _, _, _)
best_user_from(U, potential, selected, total_reach, i, best) ==
    IF i > Len(potential) THEN best
    ELSE IF potential[i] \in selected
    THEN best_user_from(U, potential, selected, total_reach, i + 1, best)
    ELSE LET new_reach ==
                Cardinality(get_user_reach(potential[i], U) \ total_reach)
         IN best_user_from(U, potential, selected, total_reach, i + 1,
                IF new_reach > best.new_reach
                THEN [user |-> potential[i], new_reach |-> new_reach]
                ELSE best)

\* The entry appended to results for the selected user.
\* Mutant: the marginal gain is recorded instead of the reach size.
reach_entry_marginal(user, user_reach, total_reach) ==
    <<user, Cardinality(user_reach \ total_reach)>>

reach_entry(user, user_reach, total_reach) ==
    <<user, Cardinality(user_reach)>>

\* The greedy steps; trace keeps, for every step, the user selected, its gain
\* and the covered set after the step.
RECURSIVE greedy_steps(_, _, _, _, _, _, _)
greedy_steps(U, potential, steps, selected, total_reach, results, trace) ==
    IF steps = 0
    THEN [results |-> results, trace |-> trace]
    ELSE LET best == best_user_from(U, potential, selected, total_reach, 1,
                                    [user |-> None, new_reach |-> 0 - 1])
         IN IF best.user = None
            THEN [results |-> results, trace |-> trace]
            ELSE LET user_reach == get_user_reach(best.user, U)
                 IN greedy_steps(U, potential, steps - 1,
                        selected \cup {best.user},
                        total_reach \cup user_reach,
                        Append(results,
                               reach_entry(best.user, user_reach, total_reach)),
                        Append(trace,
                               [user |-> best.user, gain |-> best.new_reach,
                                covered |-> total_reach \cup user_reach]))

\* The selection of ReachExpander.get_unique_reach_expansion before the final
\* sort.
greedy_selection(k, U) ==
    LET potential == potential_referrers_from(U, 1)
    IN greedy_steps(U, potential,
                    IF k < Len(potential) THEN k ELSE Len(potential),
                    {}, {}, <<>>, <<>>)

\* ReachExpander.get_unique_reach_expansion
expander_get_unique_reach_expansion(k, U) ==
    IF k <= 0 THEN <<>>
    ELSE IF potential_referrers_from(U, 1) = <<>> THEN <<>>
    ELSE sort_by_score_desc(greedy_selection(k, U).results)

\* ReferralNetwork.get_unique_reach_expansion
get_unique_reach_expansion(U, k) ==
    IF k <= 0 THEN <<>> ELSE expander_get_unique_reach_expansion(k, U)

----------------------------------------------------------------------------
(* algorithms/network_analysis.py: flow centrality *)

\* list(users.keys())
all_users_of(U) == [i \in DOMAIN U |-> U[i].user_id]

\* The while loop of _is_on_shortest_path: deque of (node, path) entries.
RECURSIVE is_on_shortest_path_loop(_, _, _, _, _)
is_on_shortest_path_loop(end, intermediate, U, visited, queue) ==
    IF queue = <<>> THEN FALSE
    ELSE LET current == Head(queue)[1]
             path    == Head(queue)[2]
         IN IF current \in visited
            THEN is_on_shortest_path_loop(end, intermediate, U, visited,
                                          Tail(queue))
            ELSE IF current = end
            THEN \E i \in DOMAIN path : path[i] = intermediate
            ELSE LET v2 == visited \cup {current}
                     kids == set_iter({x \in Get(U, current).referrals :
                                          x \notin v2})
                     new == [j \in DOMAIN kids |->
                                <<kids[j], Append(path, kids[j])>>]
                 IN is_on_shortest_path_loop(end, intermediate, U, v2,
                                             Tail(queue) \o new)

\* Mutant: the path is searched in both directions of the pair.
is_on_shortest_path_undirected(start, end, intermediate, U) ==
    IF start \notin Keys(U) \/ end \notin Keys(U) THEN FALSE
    ELSE \/ is_on_shortest_path_loop(end, intermediate, U, {},
                                     <<<<start, <<start>>>>>>)
         \/ is_on_shortest_path_loop(start, intermediate, U, {},
                                     <<<<end, <<end>>>>>>)

is_on_shortest_path(start, end, intermediate, U) ==
    IF start \notin Keys(U) \/ end \notin Keys(U) THEN FALSE
    ELSE is_on_shortest_path_loop(end, intermediate, U, {},
                                  <<<<start, <<start>>>>>>)

\* The pair loops of _calculate_flow_centrality: user1 before user2 in
\* list(users.keys()).
calculate_flow_centrality(user_id, U) ==
    IF user_id \notin Keys(U) THEN 0
    ELSE LET all_users == all_users_of(U)
         IN Cardinality({p \in (DOMAIN all_users) \X (DOMAIN all_users) :
                /\ p[1] < p[2]
                /\ all_users[p[1]] # user_id /\ all_users[p[2]] # user_id
                /\ is_on_shortest_path(all_users[p[1]], all_users[p[2]],
                                       user_id, U)})

\* Mutant: users without referrals are left out of the ranking.
RECURSIVE centrality_scores_from_filtered(_, _)
centrality_scores_from_filtered(U, i) ==
    IF i > Len(U) THEN <<>>
    ELSE (IF U[i].referrals = {} THEN <<>>
          ELSE <<<<U[i].user_id,
                   calculate_flow_centrality(U[i].user_id, U)>>>>)
         \o centrality_scores_from_filtered(U, i + 1)

\* The entries appended for the i-th user and those after it.
centrality_scores_from(U, i) ==
    [j \in 1..(Len(U) + 1 - i) |->
        <<U[j + i - 1].user_id,
          IF U[j + i - 1].referrals = {} THEN 0
          ELSE calculate_flow_centrality(U[j + i - 1].user_id, U)>>]

\* NetworkAnalyzer.get_flow_centrality; the scores are floats with integer
\* values.
analyzer_get_flow_centrality(k, U) ==
    slice_to(sort_by_score_desc(centrality_scores_from(U, 1)), k)

\* float('inf')
Infinity == 0 - 1

dist_add(x, y) == IF x = Infinity \/ y = Infinity THEN Infinity ELSE x + y

dist_less(x, y) == x # Infinity /\ (y = Infinity \/ x < y)

\* The initialisation loops of _compute_all_pairs_shortest_distances.
initial_distances(U) ==
    [p \in Keys(U) \X Keys(U) |->
        IF p[1] = p[2] THEN 0
        ELSE IF p[2] \in Get(U, p[1]).referrals THEN 1
        ELSE Infinity]

\* The i and j loops of Floyd-Warshall for one k. The entries <<i, k>> and
\* <<k, j>> they read are not changed during the round, since the distance
\* from k to k is 0, so the in-place updates amount to one simultaneous
\* update.
floyd_warshall_round(distances, k) ==
    [p \in DOMAIN distances |->
        LET via == dist_add(distances[<<p[1], k>>], distances[<<k, p[2]>>])
        IN IF dist_less(via, distances[p]) THEN via ELSE distances[p]]

\* The k loop, from the t-th user on.
RECURSIVE floyd_warshall_from(_, _, _)
floyd_warshall_from(distances, all_users, t) ==
    IF t > Len(all_users) THEN distances
    ELSE floyd_warshall_from(floyd_warshall_round(distances, all_users[t]),
                             all_users, t + 1)

compute_all_pairs_shortest_distances(U) ==
    floyd_warshall_from(initial_distances(U), all_users_of(U), 1)

\* all_pairs of _sample_user_pairs.
all_pairs_of(all_users) ==
    {<<all_users[q[1]], all_users[q[2]]>> :
        q \in {p \in (DOMAIN all_users) \X (DOMAIN all_users) : p[1] < p[2]}}

\* What _sample_user_pairs can return: all pairs, or any random.sample of
\* sample_size of them (as a set; the order of the sample is not used).
sample_user_pairs(all_users, sample_size) ==
    IF sample_size >= Cardinality(all_pairs_of(all_users))
    THEN {all_pairs_of(all_users)}
    ELSE {S \in SUBSET all_pairs_of(all_users) : Cardinality(S) = sample_size}

\* Mutant: the distance from end is used for the second leg.
is_on_shortest_path_optimized_swapped(start, end, intermediate, U, distances) ==
    IF distances[<<start, end>>] = Infinity THEN FALSE
    ELSE dist_add(distances[<<start, intermediate>>],
                  distances[<<end, intermediate>>])
         = distances[<<start, end>>]

is_on_shortest_path_optimized(start, end, intermediate, U, distances) ==
    IF distances[<<start, end>>] = Infinity THEN FALSE
    ELSE dist_add(distances[<<start, intermediate>>],
                  distances[<<intermediate, end>>])
         = distances[<<start, end>>]

\* _calculate_flow_centrality_optimized: the float centrality / sample_ratio
\* as the fraction num / den, with sample_ratio = len(sampled_pairs) /
\* (n (n - 1) / 2); 0.0 when the ratio is 0.
calculate_flow_centrality_optimized(user_id, U, distances, sampled_pairs) ==
    LET centrality ==
            Cardinality({p \in sampled_pairs :
                /\ p[1] # user_id /\ p[2] # user_id
                /\ is_on_shortest_path_optimized(p[1], p[2], user_id, U,
                                                 distances)})
    IN IF Cardinality(sampled_pairs) > 0
       THEN [num |-> centrality * Len(U) * (Len(U) - 1),
             den |-> 2 * Cardinality(sampled_pairs)]
       ELSE [num |-> 0, den |-> 1]

\* max(1, int(sample_ratio * n_users * (n_users - 1) / 2)) for the ratio
\* num / den, 0 <= num.
sample_size_of(ratio, n_users) ==
    LET s == (ratio.num * n_users * (n_users - 1)) \div (ratio.den * 2)
    IN IF s > 1 THEN s ELSE 1

\* The scores of the sampled computation share the denominator
\* 2 * len(sampled_pairs); entries are <<user_id, numerator>>, a user without
\* referrals has 0.0.
RECURSIVE sampled_scores_from(_, _, _, _)
sampled_scores_from(U, distances, sampled_pairs, i) ==
    IF i > Len(U) THEN <<>>
    ELSE <<<<U[i].user_id,
             IF U[i].referrals = {} THEN 0
             ELSE calculate_flow_centrality_optimized(
                      U[i].user_id, U, distances, sampled_pairs).num>>>>
         \o sampled_scores_from(U, distances, sampled_pairs, i + 1)

\* Lines 139-164 of get_flow_centrality_optimized for one outcome of the
\* sampling: the ranking by numerator and the common denominator.
flow_centrality_sampled(k, U, sampled_pairs) ==
    [den |-> IF Cardinality(sampled_pairs) > 0
             THEN 2 * Cardinality(sampled_pairs) ELSE 1,
     ranking |-> slice_to(sort_by_score_desc(
                    sampled_scores_from(U,
                        compute_all_pairs_shortest_distances(U),
                        sampled_pairs, 1)), k)]

\* len(users) <= 100 selects the exact algorithm.
SmallNetworkLimit == 100

\* Mutant: the sampled computation is used for every network size.
analyzer_get_flow_centrality_optimized_no_fallback(k, U, ratio, sampled_pairs) ==
    LET r == flow_centrality_sampled(k, U, sampled_pairs)
    IN [sampled |-> TRUE, den |-> r.den, ranking |-> r.ranking]

\* NetworkAnalyzer.get_flow_centrality_optimized, sampled_pairs being the
\* outcome of _sample_user_pairs when it is called.
analyzer_get_flow_centrality_optimized(k, U, ratio, sampled_pairs) ==
    IF Len(U) <= SmallNetworkLimit
    THEN [sampled |-> FALSE, den |-> 1,
          ranking |-> analyzer_get_flow_centrality(k, U)]
    ELSE LET r == flow_centrality_sampled(k, U, sampled_pairs)
         IN [sampled |-> TRUE, den |-> r.den, ranking |-> r.ranking]

\* ReferralNetwork.get_flow_centrality
get_flow_centrality(U, k) ==
    IF k <= 0 THEN <<>> ELSE analyzer_get_flow_centrality(k, U)

\* ReferralNetwork.get_flow_centrality_optimized
get_flow_centrality_optimized(U, k, ratio, sampled_pairs) ==
    IF k <= 0 THEN [sampled |-> FALSE, den |-> 1, ranking |-> <<>>]
    ELSE analyzer_get_flow_centrality_optimized(k, U, ratio, sampled_pairs)

----------------------------------------------------------------------------
(* The state machine *)

\* A call and its outcome: ret for a bool, None or an exception, reason and
\* errors for messages, value for an int or Optional[int], ranking for a list
\* of (user_id, score), elems and alias_of for a returned set object.
Call(op, a, b, ret, reason, errors) ==
    [op |-> op, a |-> a, b |-> b, ret |-> ret, reason |-> reason,
     errors |-> errors, value |-> 0, ranking |-> <<>>, elems |-> {},
     alias_of |-> None]

\* A query call that returns r.
QueryCall(op, a, r) ==
    [Call(op, a, None, "None", <<>>, <<>>) EXCEPT
        !.ret = r.ret, !.value = r.value, !.ranking = r.ranking,
        !.elems = r.elems, !.alias_of = r.alias_of]

Returns ==
    [ret |-> "None", value |-> 0, ranking |-> <<>>, elems |-> {},
     alias_of |-> None]

\* The caller is between two calls.
NoCall == Call("", None, None, "None", <<>>, <<>>)

\* One of the referrals a clear removes from referrer_map M, as <<candidate,
\* referrer>>: that of the smallest candidate id; <<>> if M is empty.
removed_referral(M) ==
    IF DOMAIN M = {} THEN <<>>
    ELSE LET c == CHOOSE x \in DOMAIN M : \A y \in DOMAIN M : x <= y
         IN <<c, M[c]>>

\* The history after a call: nothing is recorded unless hist.on.
Record(h, call) ==
    IF h.on
    THEN IF call.op = "add_referral" /\ call.ret = "True"
         THEN [h EXCEPT !.ever = @ \cup {call.b},
                        !.since_clear = @ \cup {call.b}]
         ELSE IF call.op = "clear"
         THEN [h EXCEPT !.since_clear = {}]
         ELSE h
    ELSE IF h.life
    THEN IF call.op = "add_user" /\ call.ret = "True"
         THEN [h EXCEPT !.added = @ \cup {call.a}]
         ELSE IF call.op = "clear"
         THEN [h EXCEPT !.added = {}, !.former = removed_referral(referrer_map)]
         ELSE h
    ELSE h

\* No history is recorded.  held says that the caller holds the dictionary
\* exported of some export_network call, source being the users and
\* referrer_map it was made from.
NoHist ==
    [on |-> FALSE, life |-> FALSE, ever |-> {}, since_clear |-> {},
     added |-> {}, former |-> <<>>, held |-> FALSE, exported |-> <<>>,
     source |-> <<>>]

\* No call of core/simulation.py is running.
NoSim == [op |-> ""]

\* ReferralNetwork.__init__
InitNetwork ==
    /\ users = <<>>
    /\ referrer_map = <<>>
    /\ last = NoCall

Init == InitNetwork /\ hist = NoHist /\ sim = NoSim

InitHist == InitNetwork /\ hist = [NoHist EXCEPT !.on = TRUE] /\ sim = NoSim

AddUser(user_id) ==
    LET o == add_user(user_id, users)
        call == Call("add_user", user_id, None, o.ret, <<>>, <<>>)
    IN /\ last = NoCall
       /\ users' = o.users
       /\ UNCHANGED referrer_map
       /\ last' = call
       /\ hist' = Record(hist, call) /\ sim' = sim

AddReferral(referrer_id, candidate_id) ==
    LET o == add_referral(referrer_id, candidate_id, users, referrer_map)
        call == Call("add_referral", referrer_id, candidate_id, o.ret,
                     <<>>, <<>>)
    IN /\ last = NoCall
       /\ users' = o.users
       /\ referrer_map' = o.referrer_map
       /\ last' = call
       /\ hist' = Record(hist, call) /\ sim' = sim

\* Mutant: referrer_map is not cleared.
ClearUsersOnly ==
    LET call == Call("clear", None, None, "None", <<>>, <<>>)
    IN /\ last = NoCall
       /\ users' = <<>>
       /\ UNCHANGED referrer_map
       /\ last' = call
       /\ hist' = Record(hist, call) /\ sim' = sim

Clear ==
    LET call == Call("clear", None, None, "None", <<>>, <<>>)
    IN /\ last = NoCall
       /\ users' = <<>>
       /\ referrer_map' = <<>>
       /\ last' = call
       /\ hist' = Record(hist, call) /\ sim' = sim

\* ReferralValidator.can_add_referral called on the network's users dict.
CanAddReferral(referrer_id, candidate_id) ==
    LET o == can_add_referral(referrer_id, candidate_id, users)
        call == Call("can_add_referral", referrer_id, candidate_id,
                     IF o.valid THEN "True" ELSE "False", o.reason, <<>>)
    IN /\ last = NoCall
       /\ UNCHANGED <<users, referrer_map>>
       /\ last' = call
       /\ hist' = Record(hist, call) /\ sim' = sim

ValidateNetwork ==
    LET call == Call("validate_network", None, None, "None", <<>>,
                     validate_network(users, referrer_map))
    IN /\ last = NoCall
       /\ UNCHANGED <<users, referrer_map>>
       /\ last' = call
       /\ hist' = Record(hist, call) /\ sim' = sim

\* The caller takes the result of the call; the next call can be made.
Return ==
    /\ last # NoCall
    /\ last' = NoCall
    /\ UNCHANGED <<users, referrer_map, hist, sim>>

----------------------------------------------------------------------------
(* The queries *)

\* Values of k the callers pass.
Ks == (0 - 1)..(MaxId + 1)

\* Values of sample_ratio the callers pass: the default 0.3, and 1.0.
Ratios == {[num |-> 3, den |-> 10], [num |-> 1, den |-> 1]}

GetTotalReferrals(user_id) ==
    LET call == QueryCall("get_total_referrals", user_id,
            [Returns EXCEPT !.value = get_total_referrals(users, user_id)])
       IN /\ last = NoCall
          /\ UNCHANGED <<users, referrer_map>>
          /\ last' = call
          /\ hist' = Record(hist, call) /\ sim' = sim

GetTopReferrers(k) ==
    LET call == QueryCall("get_top_referrers", k,
            [Returns EXCEPT !.ranking = get_top_referrers(users, k)])
       IN /\ last = NoCall
          /\ UNCHANGED <<users, referrer_map>>
          /\ last' = call
          /\ hist' = Record(hist, call) /\ sim' = sim

GetUniqueReachExpansion(k) ==
    LET call == QueryCall("get_unique_reach_expansion", k,
            [Returns EXCEPT !.ranking = get_unique_reach_expansion(users, k)])
       IN /\ last = NoCall
          /\ UNCHANGED <<users, referrer_map>>
          /\ last' = call
          /\ hist' = Record(hist, call) /\ sim' = sim

GetFlowCentrality(k) ==
    LET call == QueryCall("get_flow_centrality", k,
            [Returns EXCEPT !.ranking = get_flow_centrality(users, k)])
       IN /\ last = NoCall
          /\ UNCHANGED <<users, referrer_map>>
          /\ last' = call
          /\ hist' = Record(hist, call) /\ sim' = sim

\* b is the numerator of sample_ratio and value the common denominator of
\* the scores; _sample_user_pairs is called (line 149) only past the return
\* for small networks.
GetFlowCentralityOptimized(k, ratio) ==
    \E sampled_pairs \in
          IF k <= 0 \/ Len(users) <= SmallNetworkLimit THEN {{}}
          ELSE sample_user_pairs(all_users_of(users),
                                 sample_size_of(ratio, Len(users))) :
       LET r == get_flow_centrality_optimized(users, k, ratio, sampled_pairs)
       IN LET call == [QueryCall("get_flow_centrality_optimized", k,
                    [Returns EXCEPT !.ranking = r.ranking, !.value = r.den,
                                    !.ret = IF r.sampled THEN "sampled"
                                            ELSE "exact"])
                 EXCEPT !.b = ratio.num]
       IN /\ last = NoCall
          /\ UNCHANGED <<users, referrer_map>>
          /\ last' = call
          /\ hist' = Record(hist, call) /\ sim' = sim

GetDirectReferrals(user_id) ==
    LET r == get_direct_referrals(users, user_id)
    IN LET call == QueryCall("get_direct_referrals", user_id,
            [Returns EXCEPT !.elems = r.elems, !.alias_of = r.alias_of])
       IN /\ last = NoCall
          /\ UNCHANGED <<users, referrer_map>>
          /\ last' = call
          /\ hist' = Record(hist, call) /\ sim' = sim

\* The caller adds x to the set get_direct_referrals gave it; the node's own
\* set changes with it only if the two are the same object.
CallerAddsToResult(x) ==
    /\ last.op = "get_direct_referrals" /\ last.ret = "None"
    /\ x \notin last.elems
    /\ last' = [last EXCEPT !.elems = @ \cup {x}, !.ret = "mutated"]
    /\ users' = IF last.alias_of = None THEN users
                ELSE Put(users, last.alias_of,
                         user_add_referral(Get(users, last.alias_of), x))
    /\ UNCHANGED <<referrer_map, hist, sim>>

GetReferrer(user_id) ==
    LET call == QueryCall("get_referrer", user_id,
            [Returns EXCEPT !.value = get_referrer(referrer_map, user_id)])
       IN /\ last = NoCall
          /\ UNCHANGED <<users, referrer_map>>
          /\ last' = call
          /\ hist' = Record(hist, call) /\ sim' = sim

GetNetworkSize ==
    LET call == QueryCall("get_network_size", None,
            [Returns EXCEPT !.value = get_network_size(users)])
       IN /\ last = NoCall
          /\ UNCHANGED <<users, referrer_map>>
          /\ last' = call
          /\ hist' = Record(hist, call) /\ sim' = sim

HasUser(user_id) ==
    LET call == QueryCall("has_user", user_id,
            [Returns EXCEPT !.ret = IF has_user(users, user_id) THEN "True"
                                    ELSE "False"])
       IN /\ last = NoCall
          /\ UNCHANGED <<users, referrer_map>>
          /\ last' = call
          /\ hist' = Record(hist, call) /\ sim' = sim

\* network.get_user(user_id).add_referral(candidate_id): get_user hands out
\* the User object itself, whose add_referral runs no validation.
DirectAddReferral(user_id, candidate_id) ==
    /\ last = NoCall
    /\ user_id \in Keys(users)
    /\ users' = Put(users, user_id,
                    user_add_referral(Get(users, user_id), candidate_id))
    /\ UNCHANGED <<referrer_map, hist, sim>>
    /\ last' = Call("User.add_referral", user_id, candidate_id,
                    IF candidate_id \in Get(users, user_id).referrals
                    THEN "False" ELSE "True", <<>>, <<>>)

Next ==
    \/ \E user_id \in ArgIds \cup {None} : AddUser(user_id)
    \/ \E referrer_id \in ArgIds, candidate_id \in ArgIds :
          AddReferral(referrer_id, candidate_id)
    \/ Clear
    \/ \E referrer_id \in ArgIds, candidate_id \in ArgIds :
          CanAddReferral(referrer_id, candidate_id)
    \/ ValidateNetwork
    \/ Return

Spec == Init /\ [][Next]_vars

\* The same program with the history of accepted referrals recorded.
SpecHist == InitHist /\ [][Next]_vars


\* The mutation API together with the queries.
NextQuery ==
    \/ \E user_id \in ArgIds : AddUser(user_id)
    \/ \E referrer_id \in ArgIds, candidate_id \in ArgIds :
          AddReferral(referrer_id, candidate_id)
    \/ Clear
    \/ \E user_id \in ArgIds : GetTotalReferrals(user_id)
    \/ \E k \in Ks : GetTopReferrers(k)
    \/ \E k \in Ks : GetUniqueReachExpansion(k)
    \/ \E k \in Ks : GetFlowCentrality(k)
    \/ \E k \in Ks, ratio \in Ratios : GetFlowCentralityOptimized(k, ratio)
    \/ \E user_id \in ArgIds : GetDirectReferrals(user_id)
    \/ \E x \in Ids : CallerAddsToResult(x)
    \/ \E user_id \in ArgIds : GetReferrer(user_id)
    \/ GetNetworkSize
    \/ \E user_id \in ArgIds : HasUser(user_id)
    \/ ValidateNetwork
    \/ Return

SpecQuery == Init /\ [][NextQuery]_vars

\* Adding users and referrals, clearing and asking for the size, with the
\* users added since the last clear and a referral the last clear removed
\* recorded.
InitLife == InitNetwork /\ hist = [NoHist EXCEPT !.life = TRUE] /\ sim = NoSim

NextLife ==
    \/ \E user_id \in ArgIds : AddUser(user_id)
    \/ \E referrer_id \in Ids, candidate_id \in Ids :
          AddReferral(referrer_id, candidate_id)
    \/ Clear
    \/ GetNetworkSize
    \/ Return

SpecLife == InitLife /\ [][NextLife]_vars

\* Largest user id in the runs that rank referrers: a tie between two
\* referrers takes four users.
MaxRankId == 3

RankIds == 0..MaxRankId

RankKs == (0 - 1)..(MaxRankId + 1)

\* The order in which the builder of these runs adds new users: by ascending
\* id or by descending id, so that insertion order and id order can differ.
\* The algorithms never compare ids, so a network with any other insertion
\* order behaves as one of these with its ids renamed.
InRankOrder(user_id) ==
    \/ \A i \in DOMAIN users : users[i].user_id < user_id
          /\ \A j \in DOMAIN users :
                i < j => users[i].user_id < users[j].user_id
    \/ \A i \in DOMAIN users : users[i].user_id > user_id
          /\ \A j \in DOMAIN users :
                i < j => users[i].user_id > users[j].user_id

\* Building a network and ranking its referrers.
NextRank ==
    \/ \E user_id \in RankIds :
          (user_id \in Keys(users) \/ InRankOrder(user_id))
             /\ AddUser(user_id)
    \/ \E referrer_id \in RankIds, candidate_id \in RankIds :
          AddReferral(referrer_id, candidate_id)
    \/ \E k \in RankKs : GetTopReferrers(k)
    \/ \E k \in RankKs : GetUniqueReachExpansion(k)
    \/ Return

SpecRank == Init /\ [][NextRank]_vars

\* Every user present and no referral yet; the graph is then built on the
\* User objects directly, outside add_referral.
InitDirect ==
    /\ users = [i \in 1..(MaxId + 1) |-> User(i - 1)]
    /\ referrer_map = <<>>
    /\ last = NoCall
    /\ hist = NoHist
    /\ sim = NoSim

NextDirect ==
    \/ \E user_id \in Ids, candidate_id \in Ids :
          DirectAddReferral(user_id, candidate_id)
    \/ ValidateNetwork
    \/ Return

SpecDirect == InitDirect /\ [][NextDirect]_vars

----------------------------------------------------------------------------
(* Graph vocabulary of the properties *)

\* The edge set: <<r, c>> with c in users[r].referrals.
Edges(U) == UNION {{<<U[i].user_id, c>> : c \in U[i].referrals} : i \in DOMAIN U}

Successors(E, S) == {e[2] : e \in {d \in E : d[1] \in S}}

RECURSIVE Closure(_, _)
Closure(E, S) ==
    LET T == S \cup Successors(E, S)
    IN IF T = S THEN S ELSE Closure(E, T)

\* Nodes reachable from s along one or more edges.
Descendants(E, s) == Closure(E, Successors(E, {s}))

Acyclic(E) == \A e \in E : e[1] \notin Descendants(E, e[1])

\* Referrers of c according to the referrals sets.
Parents(U, c) == {e[1] : e \in {d \in Edges(U) : d[2] = c}}

GraphUnchanged == users' = users /\ referrer_map' = referrer_map

----------------------------------------------------------------------------
(* C1 *)

\* C1: acyclicity - in every state reachable by add_user, add_referral and
\* clear the edge set has no directed cycle and validate_network() returns
\* the empty error list.
ThmC1_Acyclic ==
    /\ Acyclic(Edges(users))
    /\ validate_network(users, referrer_map) = <<>>

\* validate_network has just returned [] on a graph holding a two-edge path.
WitC1_ValidatedChain ==
    /\ last.op = "validate_network"
    /\ Len(last.errors) = 0
    /\ \E e \in Edges(users) : Descendants(Edges(users), e[2]) # {}

----------------------------------------------------------------------------
(* C2 *)

SingleParent == \A c \in Ids : Cardinality(Parents(users, c)) <= 1

\* A later add_referral(r2, c), r2 and c existing, for a candidate c of the
\* set accepted, returns False and leaves both dicts unchanged.
SecondAttemptRejected(accepted) ==
    \A c \in accepted :
        (/\ last'.op = "add_referral" /\ last'.b = c
         /\ last'.a \in Keys(users) /\ c \in Keys(users))
        => (last'.ret = "False" /\ GraphUnchanged)

\* C2 as stated: each node has at most one referrer, and once
\* add_referral(r, c) has returned True every later add_referral(r2, c) with
\* r2 existing returns False and changes nothing.
OrigC2_SingleParentEver ==
    []SingleParent /\ [][SecondAttemptRejected(hist.ever)]_vars

\* C2 amended: each node has at most one referrer, and once add_referral(r, c)
\* has returned True every later add_referral(r2, c) with r2 existing that is
\* made before the next clear() returns False and changes nothing.
ThmC2_SingleParentUntilClear ==
    []SingleParent /\ [][SecondAttemptRejected(hist.since_clear)]_vars

\* A second referrer has just been refused for a candidate referred earlier.
WitC2_SecondRefused ==
    /\ hist.on
    /\ last.op = "add_referral" /\ last.ret = "False"
    /\ last.b \in hist.since_clear
    /\ last.a \in Keys(users) /\ last.a # last.b
    /\ Parents(users, last.b) # {last.a}

----------------------------------------------------------------------------
(* C3 *)

\* C3: the three views of an edge agree - referrer_map[c] = r iff
\* users[c].referrer = r iff c in users[r].referrals - and every id used as a
\* referrer or in a referrals set is a key of users, so
\* validate_network_integrity returns (True, []).
ThmC3_ViewsAgree ==
    /\ \A r \in Ids, c \in Ids :
          /\ (get_referrer(referrer_map, c) = r)
                <=> (c \in Keys(users) /\ Get(users, c).referrer = r)
          /\ (c \in Keys(users) /\ Get(users, c).referrer = r)
                <=> (r \in Keys(users) /\ c \in Get(users, r).referrals)
    /\ \A i \in DOMAIN users :
          /\ users[i].referrals \subseteq Keys(users)
          /\ users[i].referrer \in Keys(users) \cup {None}
    /\ DOMAIN referrer_map \subseteq Keys(users)
    /\ \A c \in DOMAIN referrer_map : referrer_map[c] \in Keys(users)
    /\ validate_network_integrity(users).valid
    /\ Len(validate_network_integrity(users).errors) = 0

\* An edge has just been inserted next to an older one.
WitC3_TwoEdges ==
    /\ last.op = "add_referral" /\ last.ret = "True"
    /\ Cardinality(DOMAIN referrer_map) >= 2
    /\ referrer_map[last.b] = last.a

----------------------------------------------------------------------------
(* C4 *)

\* C4: for every existing user x, add_referral(x, x) returns False (it does
\* not raise) and leaves the graph unchanged.
ThmC4_SelfReferralRejected ==
    [][(last'.op = "add_referral" /\ last'.a = last'.b
        /\ last'.a \in Keys(users))
       => (last'.ret = "False" /\ GraphUnchanged)]_vars

\* A self-referral has just been refused for a user inside a chain.
WitC4_SelfRefused ==
    /\ last.op = "add_referral" /\ last.a = last.b /\ last.ret = "False"
    /\ last.a \in Keys(users)
    /\ Get(users, last.a).referrals # {}
    /\ has_referrer(Get(users, last.a))

----------------------------------------------------------------------------
(* C5 *)

\* C5: add_referral(r, c) raises ValueError whenever r or c is not in the
\* graph (also when r = c) and changes nothing; False is only returned when
\* both ids exist.
ThmC5_UnknownUserRaises ==
    [][last'.op = "add_referral"
       => /\ (last'.a \notin Keys(users) \/ last'.b \notin Keys(users))
                => (last'.ret = "ValueError" /\ GraphUnchanged)
          /\ last'.ret = "False"
                => (last'.a \in Keys(users) /\ last'.b \in Keys(users))
          /\ last'.ret = "ValueError"
                => (last'.a \notin Keys(users) \/ last'.b \notin Keys(users))]_vars

\* add_referral has just raised for an existing referrer and a missing
\* candidate, on a graph that holds an edge.
WitC5_MissingCandidate ==
    /\ last.op = "add_referral" /\ last.ret = "ValueError"
    /\ last.a \in Keys(users) /\ last.b \notin Keys(users)
    /\ Edges(users) # {}

----------------------------------------------------------------------------
(* C6 *)

\* C6: add_user(id) raises ValueError and changes nothing if id < 0; returns
\* False and changes nothing if id is present; otherwise appends a node with
\* empty referrals and no referrer, grows get_network_size() by exactly 1,
\* touches no other node, and returns True.
ThmC6_AddUser ==
    [][(last'.op = "add_user" /\ last'.a # None)
       => LET id == last'.a
          IN /\ id < 0 => (last'.ret = "ValueError" /\ GraphUnchanged)
             /\ (id >= 0 /\ id \in Keys(users))
                   => (last'.ret = "False" /\ GraphUnchanged)
             /\ (id >= 0 /\ id \notin Keys(users))
                   => /\ last'.ret = "True"
                      /\ get_network_size(users') = get_network_size(users) + 1
                      /\ Keys(users') = Keys(users) \cup {id}
                      /\ Get(users', id).referrals = {}
                      /\ Get(users', id).referrer = None
                      /\ \A x \in Keys(users) : Get(users', x) = Get(users, x)
                      /\ referrer_map' = referrer_map]_vars

\* add_user has just returned False for a node that has a referrer and a
\* referral of its own.
WitC6_DuplicateKept ==
    /\ last.op = "add_user" /\ last.ret = "False"
    /\ last.a \in Keys(users)
    /\ Get(users, last.a).referrals # {}
    /\ has_referrer(Get(users, last.a))

----------------------------------------------------------------------------
(* C7 *)

\* C7: for existing r # c where c has no referrer, add_referral(r, c) returns
\* True iff the edge set with r->c added is acyclic, which is the case iff r
\* is not reachable from c.
ThmC7_CycleCheckExact ==
    [][(/\ last'.op = "add_referral"
        /\ last'.a \in Keys(users) /\ last'.b \in Keys(users)
        /\ last'.a # last'.b
        /\ ~has_referrer(Get(users, last'.b)))
       => LET E == Edges(users)
              ok == Acyclic(E \cup {<<last'.a, last'.b>>})
          IN /\ (last'.ret = "True") <=> ok
             /\ (last'.ret = "False") <=> ~ok
             /\ ok <=> (last'.a \notin Descendants(E, last'.b))]_vars

\* An edge from a grandchild back to the parentless root has just been
\* refused.
WitC7_CycleRefused ==
    /\ last.op = "add_referral" /\ last.ret = "False"
    /\ last.a \in Keys(users) /\ last.b \in Keys(users)
    /\ last.a # last.b
    /\ ~has_referrer(Get(users, last.b))
    /\ last.a \in Descendants(Edges(users), last.b)
    /\ last.a \notin Get(users, last.b).referrals

----------------------------------------------------------------------------
(* C8 *)

\* users' is users with exactly the edge r->c added.
EdgeAdded(r, c) ==
    /\ Len(users') = Len(users)
    /\ \A i \in DOMAIN users :
          /\ users'[i].user_id = users[i].user_id
          /\ users'[i].referrals =
                IF users[i].user_id = r THEN users[i].referrals \cup {c}
                ELSE users[i].referrals
          /\ users'[i].referrer =
                IF users[i].user_id = c THEN r ELSE users[i].referrer
    /\ <<r, c>> \notin Edges(users)
    /\ Edges(users') = Edges(users) \cup {<<r, c>>}
    /\ DOMAIN referrer_map' = DOMAIN referrer_map \cup {c}
    /\ c \notin DOMAIN referrer_map
    /\ referrer_map'[c] = r
    /\ \A x \in DOMAIN referrer_map : referrer_map'[x] = referrer_map[x]

\* C8: an accepted add_referral(r, c) adds exactly the edge r->c to the three
\* structures and changes nothing else; a rejected call changes nothing.
ThmC8_AddReferralFrame ==
    [][last'.op = "add_referral"
       => /\ last'.ret = "True" => EdgeAdded(last'.a, last'.b)
          /\ last'.ret = "False" => GraphUnchanged]_vars

\* A second child has just been accepted for a referrer.
WitC8_SecondChildAdded ==
    /\ last.op = "add_referral" /\ last.ret = "True"
    /\ last.a \in Keys(users)
    /\ Cardinality(Get(users, last.a).referrals) >= 2

----------------------------------------------------------------------------
(* C9 *)

IsDoesNotExist(reason) == Len(reason) = 3 /\ reason[3] = " does not exist"

IsSelfReferral(reason) ==
    Len(reason) = 1 /\ reason[1] = "Users cannot refer themselves"

IsAlreadyReferred(reason) ==
    Len(reason) = 3 /\ reason[3] = " already has a referrer"

IsCycle(reason) ==
    Len(reason) = 1
    /\ reason[1] = "Referral would create a cycle in the network"

\* C9: can_add_referral reports the first failing check in the order unknown
\* user, self-referral, already referred, cycle.
ThmC9_CheckOrder ==
    last.op = "can_add_referral"
    => LET r == last.a
           c == last.b
           K == Keys(users)
       IN IF r \notin K \/ c \notin K
          THEN last.ret = "False" /\ IsDoesNotExist(last.reason)
               /\ last.reason[2] = (IF r \notin K THEN r ELSE c)
          ELSE IF r = c
          THEN last.ret = "False" /\ IsSelfReferral(last.reason)
          ELSE IF Get(users, c).referrer # None
          THEN last.ret = "False" /\ IsAlreadyReferred(last.reason)
               /\ last.reason[2] = c
          ELSE IF r \in Descendants(Edges(users), c)
          THEN last.ret = "False" /\ IsCycle(last.reason)
          ELSE last.ret = "True" /\ Len(last.reason) = 0

\* The validator has just answered 'already has a referrer' for a candidate
\* that has a referrer and from which the referrer argument is reachable.
WitC9_AlreadyBeforeCycle ==
    /\ last.op = "can_add_referral"
    /\ last.a \in Keys(users) /\ last.b \in Keys(users)
    /\ last.a # last.b
    /\ Get(users, last.b).referrer # None
    /\ last.a \in Descendants(Edges(users), last.b)
    /\ IsAlreadyReferred(last.reason)

----------------------------------------------------------------------------
(* C10 *)

\* C10: once get_referrer(c) returns some r it returns the same r after every
\* add_user and add_referral call, accepted or rejected; the referrer field
\* of the node is never reassigned or unset either.
ThmC10_ReferrerImmutable ==
    [][last'.op \in {"add_user", "add_referral"}
       => \A c \in Ids :
            /\ get_referrer(referrer_map, c) # None
                  => get_referrer(referrer_map', c) = get_referrer(referrer_map, c)
            /\ (c \in Keys(users) /\ Get(users, c).referrer # None)
                  => /\ c \in Keys(users')
                     /\ Get(users', c).referrer = Get(users, c).referrer]_vars

\* A different existing, non-descendant referrer has just been refused for a
\* candidate referred by user 0.
WitC10_ReassignRefused ==
    /\ last.op = "add_referral" /\ last.ret = "False"
    /\ last.a \in Keys(users) /\ last.b \in Keys(users)
    /\ last.a # last.b
    /\ get_referrer(referrer_map, last.b) = 0
    /\ last.a # 0
    /\ last.a \notin Descendants(Edges(users), last.b)

----------------------------------------------------------------------------
(* Total referral count *)

\* C11: get_total_referrals(id) is the number of distinct nodes reachable from
\* id along one or more edges, the start node excluded, in every state the API
\* reaches; it is 0 for an id that is not in the graph.
ThmC11_TotalReferrals ==
    /\ \A id \in ArgIds :
          get_total_referrals(users, id) =
             IF id \in Keys(users)
             THEN Cardinality(Descendants(Edges(users), id))
             ELSE 0
    /\ last.op = "get_total_referrals" =>
          last.value = Cardinality(Descendants(Edges(users), last.a))

\* get_total_referrals has returned 2 for the head of a chain of three.
WitC11_GrandchildCounted ==
    /\ last.op = "get_total_referrals"
    /\ last.a \in Keys(users)
    /\ Cardinality(Get(users, last.a).referrals) = 1
    /\ last.value = 2

\* C12: an accepted add_referral(u, v) never lowers get_total_referrals(a) for
\* a node a that is u or an ancestor of u, and leaves it unchanged for every
\* other node.
ThmC12_TotalReferralsMonotone ==
    [][(last'.op = "add_referral" /\ last'.ret = "True")
       => \A a \in Keys(users) :
             IF a = last'.a \/ last'.a \in Descendants(Edges(users), a)
             THEN get_total_referrals(users', a) >=
                  get_total_referrals(users, a)
             ELSE get_total_referrals(users', a) =
                  get_total_referrals(users, a)]_vars

\* add_referral(u, v) has been accepted below an ancestor of u, whose count
\* is now 2 while v's is still 0.
WitC12_AncestorGained ==
    /\ last.op = "add_referral" /\ last.ret = "True"
    /\ \E a \in Keys(users) :
          /\ last.a \in Get(users, a).referrals
          /\ get_total_referrals(users, a) = 2
    /\ get_total_referrals(users, last.b) = 0

----------------------------------------------------------------------------
(* Rankings *)

\* Nodes with at least one direct referral.
Referrers(U) == {U[i].user_id : i \in {j \in DOMAIN U : U[j].referrals # {}}}

\* Place of a node in the insertion order of users.
Position(U, id) == CHOOSE i \in DOMAIN U : U[i].user_id = id

Min(a, b) == IF a <= b THEN a ELSE b

RankedIds(R) == {R[i][1] : i \in DOMAIN R}

SortedByScore(R) == \A i \in DOMAIN R, j \in DOMAIN R : i < j => R[i][2] >= R[j][2]

DistinctIds(R) == \A i \in DOMAIN R, j \in DOMAIN R : i # j => R[i][1] # R[j][1]

\* C13: for k > 0 get_top_referrers(k) returns min(k, number of referrers)
\* pairs (id, get_total_referrals(id)) of nodes with a direct referral, sorted
\* by count in non-increasing order, no omitted referrer having a larger count
\* than an included one, equal counts in insertion order; for k <= 0 it
\* returns the empty list.
ThmC13_TopReferrers ==
    last.op = "get_top_referrers" =>
       LET R == last.ranking
       IN /\ last.a <= 0 => R = <<>>
          /\ last.a > 0 =>
                /\ Len(R) = Min(last.a, Cardinality(Referrers(users)))
                /\ DistinctIds(R)
                /\ RankedIds(R) \subseteq Referrers(users)
                /\ \A i \in DOMAIN R :
                      R[i][2] = get_total_referrals(users, R[i][1])
                /\ SortedByScore(R)
                /\ \A id \in Referrers(users) \ RankedIds(R) :
                      \A i \in DOMAIN R :
                         get_total_referrals(users, id) <= R[i][2]
                /\ \A i \in DOMAIN R, j \in DOMAIN R :
                      (i < j /\ R[i][2] = R[j][2])
                         => Position(users, R[i][1]) < Position(users, R[j][1])

\* Two referrers with equal counts are ranked, the one with the larger id
\* first because it was added first.
WitC13_TieInInsertionOrder ==
    /\ last.op = "get_top_referrers"
    /\ Len(last.ranking) = 2
    /\ last.ranking[1][2] = last.ranking[2][2]
    /\ last.ranking[1][1] > last.ranking[2][1]

----------------------------------------------------------------------------
(* Flow centrality *)

\* The graph is exactly the chain a -> b -> c over three users.
IsChain(U, a, b, c) ==
    /\ a # b /\ b # c /\ a # c
    /\ Keys(U) = {a, b, c}
    /\ Edges(U) = {<<a, b>>, <<b, c>>}

\* C15: for three distinct users a, b, c added in any order and joined by the
\* accepted referrals a -> b and b -> c, get_flow_centrality(3) returns three
\* entries, the first of them the middle node b.
OrigC15_BridgeRanksFirst ==
    (last.op = "get_flow_centrality" /\ last.a = 3) =>
       \A a \in Ids, b \in Ids, c \in Ids :
          IsChain(users, a, b, c) =>
             /\ Len(last.ranking) = 3
             /\ last.ranking[1][1] = b

\* The outcomes of _sample_user_pairs on the current network for the
\* sample_ratio of the last get_flow_centrality_optimized call.
Samples ==
    LET ratio == CHOOSE r \in Ratios : r.num = last.b
    IN sample_user_pairs(all_users_of(users),
                         sample_size_of(ratio, Len(users)))

\* R is a centrality ranking of the first k nodes of network U.
CentralityShape(R, k, U) ==
    /\ Len(R) = Min(k, Len(U))
    /\ DistinctIds(R)
    /\ RankedIds(R) \subseteq Keys(U)
    /\ k >= Len(U) => RankedIds(R) = Keys(U)
    /\ SortedByScore(R)
    /\ \A i \in DOMAIN R :
          /\ R[i][2] >= 0
          /\ Get(U, R[i][1]).referrals = {} => R[i][2] = 0

\* C16: for k > 0 get_flow_centrality(k) and get_flow_centrality_optimized(k)
\* each return min(k, number of nodes) entries with distinct ids, sorted by
\* score in non-increasing order; a node with no outgoing edge has score 0 and
\* is not filtered out; no score is negative. The sampled computation, which
\* the entry point uses above SmallNetworkLimit users, is held to the same
\* shape for every sample it can draw.
ThmC16_CentralityShape ==
    /\ (/\ last.op \in {"get_flow_centrality", "get_flow_centrality_optimized"}
        /\ last.a > 0)
          => CentralityShape(last.ranking, last.a, users)
    /\ (last.op = "get_flow_centrality_optimized" /\ last.a > 0)
          => \A sampled_pairs \in Samples :
                CentralityShape(
                    flow_centrality_sampled(last.a, users,
                                            sampled_pairs).ranking,
                    last.a, users)

\* The ranking of a chain of three: the bridge with score 1, then the head
\* and the leaf, which has no outgoing edge, with score 0.
WitC16_LeafRanked ==
    /\ last.op = "get_flow_centrality"
    /\ Len(last.ranking) = 3
    /\ last.ranking[1][2] = 1
    /\ \E i \in DOMAIN last.ranking :
          /\ Get(users, last.ranking[i][1]).referrals = {}
          /\ last.ranking[i][2] = 0

\* C17: on a network of at most SmallNetworkLimit users
\* get_flow_centrality_optimized(k, sample_ratio) samples nothing and returns
\* exactly the list get_flow_centrality(k) returns, whatever sample_ratio is.
ThmC17_SmallNetworkFallback ==
    (last.op = "get_flow_centrality_optimized"
        /\ Len(users) <= SmallNetworkLimit)
       => /\ last.ret = "exact"
          /\ last.value = 1
          /\ last.ranking = get_flow_centrality(users, last.a)

\* get_flow_centrality_optimized(k, 0.3) has returned the exact ranking of a
\* network with a bridge.
WitC17_ExactForLowRatio ==
    /\ last.op = "get_flow_centrality_optimized"
    /\ last.b = 3
    /\ last.ret = "exact"
    /\ Len(last.ranking) >= 2
    /\ last.ranking[1][2] = 1

\* Pairs <<a, b>> as the pair loops enumerate them: a added before b.
EnumeratedPairs(U) ==
    {<<U[i].user_id, U[j].user_id>> : i \in DOMAIN U, j \in DOMAIN U} \cap
    {p \in Keys(U) \X Keys(U) : Position(U, p[1]) < Position(U, p[2])}

\* C18: on every graph the API reaches, for every pair (a, b) the pair loops
\* enumerate and every node v other than a and b, _is_on_shortest_path and
\* _is_on_shortest_path_optimized over the Floyd-Warshall table agree; hence
\* with all pairs sampled (sample_ratio 1.0) the approximate computation gives
\* every node the score of the exact one, and the same first node.
ThmC18_ExactApproximateAgree ==
    (last.op = "get_flow_centrality_optimized" /\ last.b = 1 /\ last.a > 0) =>
       LET distances == compute_all_pairs_shortest_distances(users)
       IN /\ \A p \in EnumeratedPairs(users) :
                \A v \in Keys(users) \ {p[1], p[2]} :
                   is_on_shortest_path(p[1], p[2], v, users)
                      = is_on_shortest_path_optimized(p[1], p[2], v, users,
                                                      distances)
          /\ Samples = {EnumeratedPairs(users)}
          /\ \A sampled_pairs \in Samples :
                /\ \A id \in Keys(users) :
                      LET s == calculate_flow_centrality_optimized(
                                   id, users, distances, sampled_pairs)
                      IN s.num = calculate_flow_centrality(id, users) * s.den
                /\ LET approx == flow_centrality_sampled(
                                     last.a, users, sampled_pairs)
                       exact == get_flow_centrality(users, last.a)
                   IN /\ Len(approx.ranking) = Len(exact)
                      /\ \A i \in DOMAIN exact :
                            /\ approx.ranking[i][1] = exact[i][1]
                            /\ approx.ranking[i][2] = exact[i][2] * approx.den

\* After get_flow_centrality_optimized(k, 1.0) on a network where both tests
\* find a node on the shortest path of an enumerated pair.
WitC18_BothTestsPositive ==
    /\ last.op = "get_flow_centrality_optimized" /\ last.b = 1 /\ last.a > 0
    /\ \E p \in EnumeratedPairs(users) :
          \E v \in Keys(users) \ {p[1], p[2]} :
             /\ is_on_shortest_path(p[1], p[2], v, users)
             /\ is_on_shortest_path_optimized(p[1], p[2], v, users,
                    compute_all_pairs_shortest_distances(users))

----------------------------------------------------------------------------
(* Integrity validation *)

\* Some node is in the referrals set of two different nodes.
SharedCandidate(U) == \E c \in Ids : Cardinality(Parents(U, c)) > 1

\* validate_network reports every state with a directed cycle, however the
\* state was produced.
CyclesReported ==
    (last.op = "validate_network" /\ ~Acyclic(Edges(users)))
       => last.errors # <<>>

\* C19: in any graph state, states produced outside the mutation API
\* included, validate_network returns a non-empty error list whenever the
\* state has a directed cycle and whenever some node is in the referrals set
\* of two different nodes.
OrigC19_ValidateRederivesBoth ==
    /\ CyclesReported
    /\ (last.op = "validate_network" /\ SharedCandidate(users))
          => last.errors # <<>>

----------------------------------------------------------------------------
(* Queries *)

QueryOps ==
    {"get_direct_referrals", "get_referrer", "get_network_size", "has_user",
     "get_total_referrals", "get_top_referrers", "get_unique_reach_expansion",
     "get_flow_centrality", "validate_network"}

\* What a query answers for an id that is not in the graph.
UnknownIdAnswer(call) ==
    /\ call.ret # "ValueError"
    /\ (call.op = "get_direct_referrals" /\ call.ret = "None")
          => call.elems = {}
    /\ call.op = "get_referrer" => call.value = None
    /\ call.op = "has_user" => call.ret = "False"
    /\ call.op = "get_total_referrals" => call.value = 0

\* C20: get_direct_referrals, get_referrer, get_network_size, has_user,
\* get_total_referrals, get_top_referrers, get_unique_reach_expansion,
\* get_flow_centrality and validate_network leave users, every referrals set,
\* every referrer field and referrer_map unchanged; for an id not in the graph
\* they do not raise and return the empty set, None, False or 0; the set
\* get_direct_referrals returns is a copy: it holds the node's referrals, and
\* the caller's changes to it do not reach the node.
ThmC20_QueriesPure ==
    [][last'.op \in QueryOps
       => /\ GraphUnchanged
          /\ (last'.op \in {"get_direct_referrals", "get_referrer", "has_user",
                            "get_total_referrals"}
                /\ last'.a \notin Keys(users))
                => UnknownIdAnswer(last')
          /\ (last'.op = "get_direct_referrals" /\ last'.ret = "None"
                /\ last'.a \in Keys(users))
                => /\ last'.elems = Get(users, last'.a).referrals
                   /\ last'.alias_of = None]_vars

\* The caller has added an id to the set get_direct_referrals returned for a
\* node of the graph, and the node's own set is still what it was.
WitC20_CopyMutated ==
    /\ last.op = "get_direct_referrals" /\ last.ret = "mutated"
    /\ last.a \in Keys(users)
    /\ last.elems # Get(users, last.a).referrals
    /\ Get(users, last.a).referrals # {}

----------------------------------------------------------------------------
(* Lifetime of nodes and edges *)

\* Every node, referral, referrer field and referrer_map entry of this state
\* is still there in the next.
NothingRemoved ==
    /\ Len(users') >= Len(users)
    /\ \A i \in DOMAIN users :
          /\ users'[i].user_id = users[i].user_id
          /\ users[i].referrals \subseteq users'[i].referrals
          /\ users[i].referrer # None => users'[i].referrer = users[i].referrer
    /\ \A c \in DOMAIN referrer_map :
          c \in DOMAIN referrer_map' /\ referrer_map'[c] = referrer_map[c]

\* C21: add_user and add_referral never remove a node or an edge, and
\* get_network_size() is the number of distinct ids add_user accepted since
\* the last clear; clear() is the only operation that removes anything, and
\* it removes every node and every edge from users and referrer_map, which
\* leaves the network as it is after construction.
ThmC21_Lifetime ==
    /\ [](/\ Keys(users) = hist.added
          /\ get_network_size(users) = Cardinality(hist.added)
          /\ last.op = "get_network_size"
                => last.value = Cardinality(hist.added)
          /\ last.op = "clear" => (users = <<>> /\ referrer_map = <<>>))
    /\ [][/\ last'.op \in {"add_user", "add_referral"} => NothingRemoved
          /\ ~NothingRemoved => last'.op = "clear"]_vars

\* After a clear an id has been added again and has received a referrer
\* different from the one the clear removed.
WitC21_ReferredAnewDifferently ==
    /\ last.op = "add_referral" /\ last.ret = "True"
    /\ hist.former # <<>>
    /\ last.b = hist.former[1]
    /\ last.a # hist.former[2]
    /\ get_referrer(referrer_map, last.b) = last.a

\* ---------------------------------------------------------------------------
\* Growth simulation and bonus search (core/simulation.py).
\*
\* Probabilities and referral totals are Python floats.  The probabilities
\* drawn here are multiples of 1/4, for which every sum and difference the
\* code forms is exact in binary floating point; the model stores such a value
\* v as the integer Quarter * v.
\* ---------------------------------------------------------------------------
Quarter == 4

INITIAL_REFERRERS == 100

REFERRAL_CAPACITY == 10

MaxBonus == 1000

\* The inner for loop of simulate over range(active_referrers); n is the
\* value active_referrers had when the range was built.  An iteration reads
\* and writes only the capacity of its own referrer, so the loop amounts to
\* one simultaneous update of the referrers that still have capacity.
referrer_loop(st, n, p) ==
    LET charged == {i \in 1..n : st.referrer_capacities[i] > 0}
        exhausted == {i \in charged : st.referrer_capacities[i] - p <= 0}
    IN [referrer_capacities |->
            [i \in DOMAIN st.referrer_capacities |->
                IF i \in charged THEN st.referrer_capacities[i] - p
                ELSE st.referrer_capacities[i]],
        daily_referrals |-> st.daily_referrals + p * Cardinality(charged),
        active_referrers |-> st.active_referrers - Cardinality(exhausted)]

\* The padding loop of simulate.
RECURSIVE pad_cumulative(_, _, _)
pad_cumulative(cumulative_referrals, days, total_referrals) ==
    IF Len(cumulative_referrals) < days
    THEN pad_cumulative(Append(cumulative_referrals, total_referrals), days,
                        total_referrals)
    ELSE cumulative_referrals

\* The day loop of simulate; st holds referrer_capacities and
\* active_referrers.
RECURSIVE simulate_from(_, _, _, _, _, _)
simulate_from(day, days, p, st, total_referrals, cumulative_referrals) ==
    IF day >= days THEN cumulative_referrals
    ELSE LET after == referrer_loop([st EXCEPT !.daily_referrals = 0],
                                    st.active_referrers, p)
             total == total_referrals + after.daily_referrals
             cumulative == Append(cumulative_referrals, total)
         IN IF after.active_referrers <= 0
            THEN pad_cumulative(cumulative, days, total)
            ELSE simulate_from(day + 1, days, p, after, total, cumulative)

simulate(p, days) ==
    simulate_from(0, days, p,
        [referrer_capacities |->
             [i \in 1..INITIAL_REFERRERS |-> REFERRAL_CAPACITY * Quarter],
         daily_referrals |-> 0,
         active_referrers |-> INITIAL_REFERRERS],
        0, <<>>)

\* simulation_result[-1] >= target_hires, the test min_bonus_for_target applies
\* to every simulation it runs.
reaches_target(p, days, target_hires) ==
    LET simulation_result == simulate(p, days)
    IN simulation_result[Len(simulation_result)] >= target_hires * Quarter

\* The callables passed as adoption_prob: step functions of the argument.
adoption_prob(f, x) == IF x >= f.threshold THEN f.high ELSE f.low

\* One iteration of the binary search: the new <<left_bonus, right_bonus>>.
binary_search_step(left_bonus, right_bonus, days, target_hires, f) ==
    LET mid_bonus == (left_bonus + right_bonus) \div 2
        prob == adoption_prob(f, mid_bonus)
    IN IF reaches_target(prob, days, target_hires)
       THEN <<left_bonus, mid_bonus>>
       ELSE <<mid_bonus + 1, right_bonus>>

CeilToTen(n) == ((n + 9) \div 10) * 10

\* The for/else over range(left_bonus, left_bonus + 20, 10).
increment_scan(left_bonus, days, target_hires, f) ==
    IF reaches_target(adoption_prob(f, left_bonus), days, target_hires)
    THEN left_bonus
    ELSE IF reaches_target(adoption_prob(f, left_bonus + 10), days, target_hires)
    THEN left_bonus + 10
    ELSE CeilToTen(left_bonus)

\* Everything after the binary search: the scan, the replacement of 0 by 10
\* and the final verification.
min_bonus_result(left_bonus, days, target_hires, f) ==
    LET scanned == increment_scan(left_bonus, days, target_hires, f)
        min_bonus == IF scanned = 0 THEN 10 ELSE scanned
    IN IF reaches_target(adoption_prob(f, min_bonus), days, target_hires)
       THEN min_bonus
       ELSE None

MaxDays == 2

\* Day counts passed to min_bonus_for_target: the rejected 0, short runs, and
\* one run long enough for every referrer to use up its capacity.
DaysInputs == 0..MaxDays \cup {REFERRAL_CAPACITY + 1}

TargetHires == {0, 1, 100, 200, 1001}

BonusThresholds == {0, 37, 40, MaxBonus + 1}

AdoptionFns == [threshold : BonusThresholds, low : {0, Quarter}, high : {0, 1, Quarter}]

SimFrame(op, days, target, f, pc, left_bonus, right_bonus, ret) ==
    [op |-> op, days |-> days, target |-> target, f |-> f, pc |-> pc,
     left_bonus |-> left_bonus, right_bonus |-> right_bonus, ret |-> ret]

\* min_bonus_for_target up to the binary search: the edge cases and the check
\* of the largest bonus.
MinBonusForTarget(days, target_hires, f) ==
    /\ sim = NoSim
    /\ LET returns_none ==
               SimFrame("min_bonus_for_target", days, target_hires, f, "done",
                        0, MaxBonus, None)
           max_prob == adoption_prob(f, MaxBonus)
       IN sim' = IF days <= 0 \/ target_hires <= 0 THEN returns_none
                 ELSE IF max_prob > 0 /\ ~reaches_target(max_prob, days, target_hires)
                 THEN returns_none
                 ELSE SimFrame("min_bonus_for_target", days, target_hires, f,
                               "search", 0, MaxBonus, None)
    /\ UNCHANGED <<users, referrer_map, last, hist>>

\* One iteration of "while left_bonus < right_bonus".
BinarySearchStep ==
    /\ sim.op = "min_bonus_for_target"
    /\ sim.pc = "search"
    /\ sim.left_bonus < sim.right_bonus
    /\ LET bounds == binary_search_step(sim.left_bonus, sim.right_bonus,
                                        sim.days, sim.target, sim.f)
       IN sim' = [sim EXCEPT !.left_bonus = bounds[1], !.right_bonus = bounds[2]]
    /\ UNCHANGED <<users, referrer_map, last, hist>>

\* The loop exit and the rest of min_bonus_for_target.
BinarySearchExit ==
    /\ sim.op = "min_bonus_for_target"
    /\ sim.pc = "search"
    /\ ~(sim.left_bonus < sim.right_bonus)
    /\ sim' = [sim EXCEPT !.pc = "done",
                          !.ret = min_bonus_result(sim.left_bonus, sim.days,
                                                   sim.target, sim.f)]
    /\ UNCHANGED <<users, referrer_map, last, hist>>

\* The caller takes the result.
SimReturn ==
    /\ sim.op # ""
    /\ sim.pc = "done"
    /\ sim' = NoSim
    /\ UNCHANGED <<users, referrer_map, last, hist>>

\* ---------------------------------------------------------------------------
\* simulate_network_growth
\* ---------------------------------------------------------------------------
\* Python's round() of the float n / Quarter: to the nearest integer, a tie to
\* the even one.
python_round(n) ==
    LET q == n \div Quarter
        r == n % Quarter
    IN IF 2 * r < Quarter THEN q
       ELSE IF 2 * r > Quarter THEN q + 1
       ELSE IF q % 2 = 0 THEN q ELSE q + 1

\* The for loop over user_capacities of one day.  As in simulate, an iteration
\* touches only its own entry.
capacity_loop(user_capacities, prob) ==
    LET active == {i \in DOMAIN user_capacities : user_capacities[i] > 0}
    IN [user_capacities |->
            [i \in DOMAIN user_capacities |->
                IF i \in active /\ prob > 0
                THEN (IF user_capacities[i] - prob <= 0 THEN 0
                      ELSE user_capacities[i] - prob)
                ELSE user_capacities[i]],
        active_users |-> Cardinality(active),
        new_users |-> IF prob > 0 THEN prob * Cardinality(active) ELSE 0]

GrowthResult(success, days_taken, final_users) ==
    [success |-> success, days_taken |-> days_taken, final_users |-> final_users]

\* Mutant: days_taken is set to day instead of day + 1.
growth_days_taken_unshifted(day) == day

\* days_taken = day + 1
growth_days_taken(day) == day + 1

\* The body of "for day in range(max_days)" applied to the frame g.
growth_day(g) ==
    LET prob == adoption_prob(g.f, g.current_users)
    IN IF prob < 0 \/ prob > Quarter
       THEN [g EXCEPT !.pc = "done", !.raised = "ValueError"]
       ELSE LET day_result == capacity_loop(g.user_capacities, prob)
                current_users == g.current_users + python_round(day_result.new_users)
                days_taken == growth_days_taken(g.day)
                continued == [g EXCEPT !.day = @ + 1,
                                       !.current_users = current_users,
                                       !.days_taken = days_taken,
                                       !.user_capacities = day_result.user_capacities]
            IN IF current_users >= g.target_users
               THEN [continued EXCEPT !.pc = "done",
                        !.ret = GrowthResult(TRUE, days_taken, current_users)]
               ELSE IF day_result.active_users = 0
               THEN [continued EXCEPT !.pc = "done",
                        !.ret = GrowthResult(FALSE, days_taken, current_users)]
               ELSE continued

\* The frame of a call; raised names the exception that ended it, if any, and
\* ret is the dictionary returned (meaningful once pc is "done" and nothing
\* was raised).
GrowthFrame(initial_users, target_users, f, max_days, pc, raised, ret) ==
    [op |-> "simulate_network_growth", initial_users |-> initial_users,
     target_users |-> target_users, f |-> f, max_days |-> max_days, pc |-> pc,
     day |-> 0, current_users |-> initial_users, days_taken |-> 0,
     user_capacities |-> [i \in 1..initial_users |-> REFERRAL_CAPACITY * Quarter],
     raised |-> raised, ret |-> ret]

InitialUsers == 0..3

TargetUsers == {0, 2, 4, 7, 40}

MaxDaysInputs == 0..MaxDays \cup {REFERRAL_CAPACITY + 2}

\* Callables of the user count; Quarter + 1 stands for a probability above 1
\* and 0 - 1 for a negative one.
GrowthFns == [threshold : {0, 4}, low : {0 - 1, 0, 1, Quarter}, high : {0, 2, Quarter, Quarter + 1}]

\* simulate_network_growth up to its day loop: the argument checks.
SimulateNetworkGrowth(initial_users, target_users, f, max_days) ==
    /\ sim = NoSim
    /\ sim' = IF \/ initial_users <= 0 \/ max_days <= 0
                 \/ target_users <= 0
                 \/ target_users <= initial_users
              THEN GrowthFrame(initial_users, target_users, f, max_days, "done",
                               "ValueError", GrowthResult(FALSE, 0, 0))
              ELSE IF initial_users >= target_users
              THEN GrowthFrame(initial_users, target_users, f, max_days, "done",
                               "", GrowthResult(TRUE, 0, initial_users))
              ELSE GrowthFrame(initial_users, target_users, f, max_days, "loop",
                               "", GrowthResult(FALSE, 0, 0))
    /\ UNCHANGED <<users, referrer_map, last, hist>>

\* One day of the simulation.
GrowthDay ==
    /\ sim.op = "simulate_network_growth"
    /\ sim.pc = "loop"
    /\ sim.day < sim.max_days
    /\ sim' = growth_day(sim)
    /\ UNCHANGED <<users, referrer_map, last, hist>>

\* range(max_days) is used up: the return after the loop.
GrowthLoopEnd ==
    /\ sim.op = "simulate_network_growth"
    /\ sim.pc = "loop"
    /\ ~(sim.day < sim.max_days)
    /\ sim' = [sim EXCEPT !.pc = "done",
                  !.ret = GrowthResult(FALSE, sim.days_taken, sim.current_users)]
    /\ UNCHANGED <<users, referrer_map, last, hist>>

InitSim == InitNetwork /\ hist = NoHist /\ sim = NoSim

NextSim ==
    \/ \E days \in DaysInputs, target_hires \in TargetHires, f \in AdoptionFns :
           MinBonusForTarget(days, target_hires, f)
    \/ BinarySearchStep
    \/ BinarySearchExit
    \/ \E initial_users \in InitialUsers, target_users \in TargetUsers,
          f \in GrowthFns, max_days \in MaxDaysInputs :
           SimulateNetworkGrowth(initial_users, target_users, f, max_days)
    \/ GrowthDay
    \/ GrowthLoopEnd
    \/ SimReturn

SpecSim == InitSim /\ [][NextSim]_vars

\* ---------------------------------------------------------------------------
\* Vocabulary of the claims about min_bonus_for_target.
\* ---------------------------------------------------------------------------
NonDecreasing(f) == f.low <= f.high

Achieves(bonus, days, target_hires, f) ==
    reaches_target(adoption_prob(f, bonus), days, target_hires)

MinBonusDone == sim.op = "min_bonus_for_target" /\ sim.pc = "done"

\* C22: with a non-decreasing adoption_prob, a result of min_bonus_for_target
\* that is not None is a positive multiple of 10, reaches the target, and no
\* smaller positive multiple of 10 in 0..1000 reaches the target.
OrigC22_RoundedMinimum ==
    (MinBonusDone /\ NonDecreasing(sim.f) /\ sim.ret # None) =>
        /\ sim.ret > 0
        /\ sim.ret % 10 = 0
        /\ Achieves(sim.ret, sim.days, sim.target, sim.f)
        /\ \A t \in 1..(MaxBonus \div 10) :
               10 * t < sim.ret => ~Achieves(10 * t, sim.days, sim.target, sim.f)

\* Some bonus in 0..1000 reaches the target.  Whether a bonus reaches it
\* depends on the bonus only through adoption_prob(bonus), which takes the
\* two values f.low and f.high.
AchievingProbs(days, target_hires, f) ==
    {p \in {f.low, f.high} : reaches_target(p, days, target_hires)}

Achievable(days, target_hires, f) ==
    LET achieving == AchievingProbs(days, target_hires, f)
    IN \E bonus \in 0..MaxBonus : adoption_prob(f, bonus) \in achieving

GrowthReturned ==
    /\ sim.op = "simulate_network_growth"
    /\ sim.pc = "done"
    /\ sim.raised = ""

ConstantZero(f) == f.low = 0 /\ f.high = 0

\* C24: a result of simulate_network_growth with success True has
\* final_users >= target_users and 1 <= days_taken <= max_days; one with
\* success False has final_users < target_users and days_taken <= max_days;
\* final_users >= initial_users in both; with a probability that is always 0
\* the result has success False and final_users = initial_users.
ThmC24_GrowthBounds ==
    GrowthReturned =>
        /\ sim.ret.success =>
               /\ sim.ret.final_users >= sim.target_users
               /\ 1 <= sim.ret.days_taken
               /\ sim.ret.days_taken <= sim.max_days
        /\ ~sim.ret.success =>
               /\ sim.ret.final_users < sim.target_users
               /\ sim.ret.days_taken <= sim.max_days
        /\ sim.ret.final_users >= sim.initial_users
        /\ ConstantZero(sim.f) =>
               /\ ~sim.ret.success
               /\ sim.ret.final_users = sim.initial_users

\* A run that reached its target on a later day than the first.
WitC24_TargetReachedLater ==
    /\ GrowthReturned
    /\ sim.ret.success
    /\ sim.ret.days_taken > 1
    /\ sim.ret.final_users > sim.target_users

----------------------------------------------------------------------------
(* The greedy selection of get_unique_reach_expansion *)

\* The steps of the selection made by the call in last.
GreedyTrace == greedy_selection(last.a, users).trace

\* Nodes selected and nodes covered before step j.
SelectedBefore(trace, j) == {trace[i].user : i \in 1..(j - 1)}

CoveredBefore(trace, j) == IF j = 1 THEN {} ELSE trace[j - 1].covered

Reach(U, id) == Descendants(Edges(U), id)

Gain(U, id, covered) == Cardinality(Reach(U, id) \ covered)

\* C25: at each iteration of get_unique_reach_expansion the node selected is
\* a referrer not selected before whose marginal gain |reach - covered| is the
\* maximum over the referrers not selected before, the earliest of those in
\* insertion order; the covered set after the step is the covered set before
\* it united with the whole reach of the selected node.
ThmC25_GreedyStep ==
    (last.op = "get_unique_reach_expansion" /\ last.a > 0) =>
        /\ RankedIds(last.ranking) = {GreedyTrace[j].user : j \in DOMAIN GreedyTrace}
        /\ \A j \in DOMAIN GreedyTrace :
              LET open == Referrers(users) \ SelectedBefore(GreedyTrace, j)
                  covered == CoveredBefore(GreedyTrace, j)
                  s == GreedyTrace[j].user
              IN /\ s \in open
                 /\ GreedyTrace[j].gain = Gain(users, s, covered)
                 /\ \A r \in open :
                       /\ Gain(users, r, covered) <= Gain(users, s, covered)
                       /\ Gain(users, r, covered) = Gain(users, s, covered)
                             => Position(users, s) <= Position(users, r)
                 /\ GreedyTrace[j].covered = covered \cup Reach(users, s)

\* Two referrers tie with a positive gain and the one added first, which has
\* the larger id, is selected; a second selection follows.
WitC25_TieToEarlierInsertion ==
    /\ last.op = "get_unique_reach_expansion"
    /\ Len(GreedyTrace) >= 2
    /\ \E r \in Referrers(users) :
          /\ r # GreedyTrace[1].user
          /\ Gain(users, r, {}) = GreedyTrace[1].gain
          /\ GreedyTrace[1].gain > 0
          /\ r < GreedyTrace[1].user

\* Number of nodes in the union of the reach sets of the nodes of S.
Coverage(U, S) == Cardinality(UNION {Reach(U, id) : id \in S})

\* Sets of at most k referrers.
Choices(U, k) == {S \in SUBSET Referrers(U) : Cardinality(S) <= k}

\* C26: in every network built through the API and for every k >= 1, the
\* nodes returned by get_unique_reach_expansion(k) cover as many nodes as any
\* set of at most k referrers covers.
ThmC26_GreedyOptimalOnForest ==
    (last.op = "get_unique_reach_expansion" /\ last.a >= 1) =>
        /\ RankedIds(last.ranking) \in Choices(users, last.a)
        /\ \A S \in Choices(users, last.a) :
              Coverage(users, S) <= Coverage(users, RankedIds(last.ranking))

\* The choice matters: not every referrer fits into k, and some set of k
\* referrers covers fewer nodes than the returned one.
WitC26_SmallerChoiceExists ==
    /\ last.op = "get_unique_reach_expansion"
    /\ last.a >= 2
    /\ last.a < Cardinality(Referrers(users))
    /\ \E S \in Choices(users, last.a) :
          /\ Cardinality(S) = last.a
          /\ Coverage(users, S) < Coverage(users, RankedIds(last.ranking))

\* The score the call in last reports for the node id.
ReportedScore(id) ==
    LET i == CHOOSE j \in DOMAIN last.ranking : last.ranking[j][1] = id
    IN last.ranking[i][2]

\* C27: during get_unique_reach_expansion the covered set after j selections
\* contains the covered set after j - 1 selections and is the union of the
\* reach sets of the first j selected nodes; the score reported for a
\* selection counts only the nodes of its reach that no earlier selection
\* had covered.
OrigC27_NoRecount ==
    (last.op = "get_unique_reach_expansion" /\ last.a > 0) =>
        \A j \in DOMAIN GreedyTrace :
            /\ CoveredBefore(GreedyTrace, j) \subseteq GreedyTrace[j].covered
            /\ GreedyTrace[j].covered =
                   UNION {Reach(users, GreedyTrace[i].user) : i \in 1..j}
            /\ ReportedScore(GreedyTrace[j].user) =
                   Cardinality(Reach(users, GreedyTrace[j].user)
                               \ CoveredBefore(GreedyTrace, j))

----------------------------------------------------------------------------
(* Networks around the size limit of get_flow_centrality_optimized *)

\* Ids of the users that refer one another in these runs.
BridgeIds == 0..2

\* The network after add_user(0), ..., add_user(SmallNetworkLimit - 1).
InitLarge ==
    /\ users = [i \in 1..SmallNetworkLimit |-> User(i - 1)]
    /\ referrer_map = <<>>
    /\ last = NoCall
    /\ hist = NoHist
    /\ sim = NoSim

\* One or two more users take the network over the limit; a few referrals
\* among the first users; the exact entry point is called.
NextLarge ==
    \/ \E user_id \in {SmallNetworkLimit, SmallNetworkLimit + 1} : AddUser(user_id)
    \/ \E referrer_id \in BridgeIds, candidate_id \in BridgeIds :
          AddReferral(referrer_id, candidate_id)
    \/ \E k \in {1, 2} : GetFlowCentrality(k)
    \/ Return

SpecLarge == InitLarge /\ [][NextLarge]_vars

\* sample_ratio when the caller does not pass one.
DefaultRatio == [num |-> 3, den |-> 10]

\* A score of the approximate path is a count of sampled pairs divided by the
\* fraction of the pairs that were sampled: with m of the n (n - 1) / 2 pairs
\* sampled it is c * n (n - 1) / (2 m) for some count c in 0..m.
ApproximateScore(score, n) ==
    LET m == sample_size_of(DefaultRatio, n)
    IN \E c \in 0..m : 2 * m * score = c * n * (n - 1)

\* C28: get_flow_centrality(k) on a network with more nodes than the limit
\* computes its scores on the approximate path, from the Floyd-Warshall
\* distance table and a sample of the pairs: every score it returns is a
\* score of the approximate path.
OrigC28_AutomaticApproximation ==
    (/\ last.op = "get_flow_centrality"
     /\ last.a > 0
     /\ Len(users) > SmallNetworkLimit) =>
        \A i \in DOMAIN last.ranking :
            ApproximateScore(last.ranking[i][2], Len(users))

\* Number of pairs (a, b), a added before b, whose directed referral path
\* from a to b passes through id: a is an ancestor of id and b a descendant.
PairsThrough(U, id) ==
    LET E == Edges(U)
        ancestors == {a \in {e[1] : e \in E} : id \in Descendants(E, a)}
    IN Cardinality({p \in ancestors \X Descendants(E, id) :
                       Position(U, p[1]) < Position(U, p[2])})

\* C28, as the code has it: get_flow_centrality(k) takes the exact path
\* whatever the number of nodes, also above the limit of
\* get_flow_centrality_optimized: each score it returns is the exact count of
\* pairs whose path passes through the node.
ThmC28_ExactAboveLimit ==
    (last.op = "get_flow_centrality" /\ last.a > 0) =>
        /\ Len(last.ranking) = Min(last.a, Len(users))
        /\ \A i \in DOMAIN last.ranking :
              last.ranking[i][2] = PairsThrough(users, last.ranking[i][1])

\* A network above the limit whose bridge gets the exact score 1, which no
\* sample of the pairs can produce.
WitC28_ExactScoreAboveLimit ==
    /\ last.op = "get_flow_centrality"
    /\ Len(users) > SmallNetworkLimit
    /\ last.ranking # <<>>
    /\ last.ranking[1][2] = 1
    /\ ~ApproximateScore(last.ranking[1][2], Len(users))

----------------------------------------------------------------------------
(* The two rankings at k = 1 *)

\* C29: in every state the API reaches, get_unique_reach_expansion(1) and
\* get_top_referrers(1) return the same list: the same node with the same
\* score, also when several referrers tie for the largest count, and the
\* empty list when there is no referrer.
ThmC29_TopOneAgreement ==
    /\ get_unique_reach_expansion(users, 1) = get_top_referrers(users, 1)
    /\ (last.op = "get_unique_reach_expansion" /\ last.a = 1)
          => last.ranking = get_top_referrers(users, 1)
    /\ (last.op = "get_top_referrers" /\ last.a = 1)
          => last.ranking = get_unique_reach_expansion(users, 1)
    /\ Referrers(users) = {} => get_top_referrers(users, 1) = <<>>

\* Two referrers tie for the largest count and both calls name the one that
\* was added first, which has the larger id.
WitC29_TieSameWinner ==
    /\ last.op = "get_unique_reach_expansion"
    /\ last.a = 1
    /\ Len(last.ranking) = 1
    /\ \E r \in Referrers(users) :
          /\ r < last.ranking[1][1]
          /\ get_total_referrals(users, r) = last.ranking[1][2]

----------------------------------------------------------------------------
(* export_network and import_network *)

\* list(s) for a set s: the elements in the iteration order of the set, which
\* depends on the hashes and the history of the set; any order is possible.
Orderings(S) ==
    {s \in [1..Cardinality(S) -> S] : \A i, j \in DOMAIN s : i # j => s[i] # s[j]}

\* The loop of export_network from the i-th user on: the items of
\* network_data['users'] in dict order, for every order the referrals lists
\* can have.
RECURSIVE export_users_from(_, _)
export_users_from(U, i) ==
    IF i > Len(U) THEN {<<>>}
    ELSE {<<[user_id |-> U[i].user_id, referrals |-> r,
             referrer |-> U[i].referrer]>> \o rest :
             r \in Orderings(U[i].referrals),
             rest \in export_users_from(U, i + 1)}

\* What export_network can return for U.
export_network(U) == export_users_from(U, 1)

\* The first loop of import_network from the i-th item on: add_user for every
\* key; raised says that a call raised.
RECURSIVE import_users(_, _, _)
import_users(data, i, st) ==
    IF i > Len(data) \/ st.raised THEN st
    ELSE LET o == add_user(data[i].user_id, st.users)
         IN import_users(data, i + 1,
                [st EXCEPT !.users = o.users,
                           !.raised = (o.ret = "ValueError")])

\* The inner loop of the second loop: add_referral for the referrals of one
\* item from the j-th on.  A call that returns False is counted in rejected;
\* import_network does not look at what add_referral returns.
RECURSIVE import_referrals_of(_, _, _, _)
import_referrals_of(user_id, referrals, j, st) ==
    IF j > Len(referrals) \/ st.raised THEN st
    ELSE LET o == add_referral(user_id, referrals[j], st.users, st.referrer_map)
         IN import_referrals_of(user_id, referrals, j + 1,
                [users |-> o.users, referrer_map |-> o.referrer_map,
                 raised |-> (o.ret = "ValueError"),
                 rejected |-> st.rejected + (IF o.ret = "False" THEN 1 ELSE 0)])

\* The second loop of import_network from the i-th item on.
RECURSIVE import_referrals(_, _, _)
import_referrals(data, i, st) ==
    IF i > Len(data) \/ st.raised THEN st
    ELSE import_referrals(data, i + 1,
             import_referrals_of(data[i].user_id, data[i].referrals, 1, st))

\* Mutant: the referrals are imported only for users that have a referrer.
import_network_inner_only(data) ==
    LET cleared == [users |-> <<>>, referrer_map |-> <<>>, raised |-> FALSE,
                    rejected |-> 0]
        st == import_referrals(
                  [i \in DOMAIN data |->
                      IF data[i].referrer = None
                      THEN [data[i] EXCEPT !.referrals = <<>>]
                      ELSE data[i]],
                  1, import_users(data, 1, cleared))
    IN [ret |-> IF st.raised THEN "False" ELSE "True", users |-> st.users,
        referrer_map |-> st.referrer_map, rejected |-> st.rejected]

\* import_network: clear(), the two loops, and the except branch.
import_network(data) ==
    LET cleared == [users |-> <<>>, referrer_map |-> <<>>, raised |-> FALSE,
                    rejected |-> 0]
        st == import_referrals(data, 1, import_users(data, 1, cleared))
    IN [ret |-> IF st.raised THEN "False" ELSE "True", users |-> st.users,
        referrer_map |-> st.referrer_map, rejected |-> st.rejected]

\* The caller keeps the dictionary export_network returns.
ExportNetwork ==
    \E data \in export_network(users) :
       LET call == Call("export_network", None, None, "None", <<>>, <<>>)
       IN /\ last = NoCall
          /\ UNCHANGED <<users, referrer_map>>
          /\ last' = call
          /\ hist' = [hist EXCEPT !.held = TRUE, !.exported = data,
                                  !.source = [users |-> users,
                                              referrer_map |-> referrer_map]]
          /\ sim' = sim

\* The caller passes the dictionary it holds to import_network, on the
\* network as it is by then; value is the number of referrals rejected.
ImportNetwork ==
    LET o == import_network(hist.exported)
        call == [Call("import_network", None, None, o.ret, <<>>, <<>>)
                    EXCEPT !.value = o.rejected]
    IN /\ hist.held
       /\ last = NoCall
       /\ users' = o.users
       /\ referrer_map' = o.referrer_map
       /\ last' = call
       /\ UNCHANGED <<hist, sim>>

\* The network is the one the held dictionary was exported from, if any: the
\* runs change an exported network by one more call, or clear it, before the
\* import.
AsExported ==
    hist.held =>
        /\ users = hist.source.users
        /\ referrer_map = hist.source.referrer_map

\* Building a network, exporting it, changing it, importing what was
\* exported.
NextIO ==
    \/ \E user_id \in Ids :
          /\ AsExported
          /\ user_id \in Keys(users) \/ InRankOrder(user_id)
          /\ AddUser(user_id)
    \/ \E referrer_id \in Ids, candidate_id \in Ids :
          AsExported /\ AddReferral(referrer_id, candidate_id)
    \/ Clear
    \/ ExportNetwork
    \/ ImportNetwork
    \/ Return

SpecIO == Init /\ [][NextIO]_vars

----------------------------------------------------------------------------
(* The round trip *)

\* C30: import_network of a dictionary that export_network returned for a
\* network built through the API, on a network in any state, returns True,
\* rejects none of the exported referrals, and leaves the network with the
\* nodes of the exported one and its edges in the referrals sets, the referrer
\* fields and referrer_map, whatever the order of the referrals in the
\* dictionary.
ThmC30_ExportImportRoundTrip ==
    last.op = "import_network" =>
        /\ last.ret = "True"
        /\ last.value = 0
        /\ Keys(users) = Keys(hist.source.users)
        /\ \A id \in Keys(users) :
              /\ Get(users, id).referrals = Get(hist.source.users, id).referrals
              /\ Get(users, id).referrer = Get(hist.source.users, id).referrer
        /\ referrer_map = hist.source.referrer_map

\* A network with a node of two referrals was exported with the larger id
\* first, and the dictionary has been imported.
WitC30_ReversedListImported ==
    /\ last.op = "import_network"
    /\ \E i \in DOMAIN hist.exported :
          /\ Len(hist.exported[i].referrals) = 2
          /\ hist.exported[i].referrals[1] > hist.exported[i].referrals[2]
    /\ Len(users) = MaxId + 1

============================================================================
